---- MODULE Spec2Model ----
(***************************************************************************)
(* reactive-lens: the root store (value cell, transaction depth, pending   *)
(* flag, listener registry), the lens constructors and the stores derived  *)
(* through them, as a state machine whose steps are the statements of      *)
(* Store.init's closures and of the user code that calls them.             *)
(***************************************************************************)
EXTENDS Integers, Sequences, FiniteSets, TLC

(***************************************************************************)
(* Bounds of the model.                                                    *)
(***************************************************************************)
\* at most this many listeners are ever subscribed (ids 0 .. MaxListeners-1)
MaxListeners == 2
\* transactions are opened only while depth is below this
MaxDepth == 2
\* user operations (set, transaction, on, off) inside one top-level call
MaxOps == 2
\* top-level calls of the program that writes several fields at once
MaxCalls == 2
MaxLen == 3
MaxHist == 3
MaxIds == 3
MaxPasses == 3

\* the numbers stored in the state
Val == {0, 1}
\* JavaScript's undefined, a value outside Val
Undefined == -1
\* the arrays written to key b
Arrs == {<<>>, <<0>>, <<1, 0>>}

(***************************************************************************)
(* Records and arrays as the lenses use them.                              *)
(***************************************************************************)
Range(f) == {f[i] : i \in DOMAIN f}

\* s[k] of JavaScript: undefined when the key is absent
Prop(s, k) == IF k \in DOMAIN s THEN s[k] ELSE Undefined

\* {...s, [k]: v}
Spread(s, k, v) == [i \in (DOMAIN s) \cup {k} |-> IF i = k THEN v ELSE s[i]]

\* a copy loop that copies k too
WithoutNothing(s, k) == s

\* the copy loop of Lens.key: every key of s but k
Without(s, k) == [i \in (DOMAIN s) \ {k} |-> s[i]]

\* xs.slice().reverse()
reverse(xs) == [i \in 1..Len(xs) |-> xs[Len(xs) + 1 - i]]

(***************************************************************************)
(* Lenses.  A lens is a record naming its constructor and arguments;       *)
(* LensGet and LensSet are its get and set.                                *)
(***************************************************************************)
at(k) == [kind |-> "at", k |-> k]
key(k) == [kind |-> "key", k |-> k]
def(missing) == [kind |-> "def", missing |-> missing]
iso(f, g) == [kind |-> "iso", f |-> f, g |-> g]
index(i) == [kind |-> "index", i |-> i]
seq(lens1, lens2) == [kind |-> "seq", lens1 |-> lens1, lens2 |-> lens2]
relabel(keys, lenses) == [kind |-> "relabel", keys |-> keys, lenses |-> lenses]
pick(keys) == relabel(keys, [k \in Range(keys) |-> at(k)])
omit(ks) == [kind |-> "omit", ks |-> ks]
Lens_along(k, i, keep) == [kind |-> "along", k |-> k, i |-> i, keep |-> keep]

\* Object.keys(t): the keys of a record, in the order the program wrote them
KeyOrder == <<"a", "b", "c", "d", "e", "x", "y", "z">>
Keys(t) == SelectSeq(KeyOrder, LAMBDA k : k \in DOMAIN t)

\* an omit that picks every key
PickedAll(s, ks) == Keys(s)

\* picked of Lens.omit: all_keys.filter(x => -1 == ks.indexOf(x))
Picked(s, ks) == SelectSeq(Keys(s), LAMBDA x : x \notin ks)

\* the functions handed to Lens.iso, by name
Apply(f, x) ==
  CASE f = "reverse" -> reverse(x)
    [] f = "same" -> x
    [] f = "double" -> x * 2
    [] f = "half" -> x \div 2
    [] f = "bump" -> x + 1
    [] f = "unbump" -> x - 1

\* a bounds test that forgets the upper bound
withinFromZero(i, xs) == ~(i < 0)

\* within(xs) of Lens.index: FALSE where the code throws 'Out of bounds'
within(i, xs) == ~(i < 0 \/ i >= Len(xs))

\* xs[i] of JavaScript: undefined outside the array
Elem(xs, i) == IF i + 1 \in DOMAIN xs THEN xs[i + 1] ELSE Undefined

\* an index lens that writes the first slot
AssignFirst(xs, i, x) == [xs EXCEPT ![1] = x]

\* ys = xs.slice(); ys[i] = x
\* (an assignment past the end grows the array, one to a negative i adds a
\* property and leaves the elements alone)
AssignIndex(xs, i, x) ==
  IF i < 0 THEN xs
  ELSE [j \in 1 .. (IF i + 1 > Len(xs) THEN i + 1 ELSE Len(xs)) |->
          IF j = i + 1 THEN x ELSE IF j <= Len(xs) THEN xs[j] ELSE Undefined]

\* a def whose getter returns undefined as it is
DefGetSame(missing, a) == a

\* f of Lens.def: a => a === undefined ? missing : a
DefGet(missing, a) == IF a = Undefined THEN missing ELSE a

\* a def that writes the default value into the record
DefSetKeep(missing, a) == a

\* g of Lens.def: a => a === missing ? undefined : a
DefSet(missing, a) == IF a = missing THEN Undefined ELSE a

\* an iso whose setter forgets to apply g
IsoSetRaw(g, t) == t

\* the setter of Lens.iso: (_s, t) => g(t)
IsoSet(g, t) == Apply(g, t)

\* a setter that returns the array untrimmed
rtrimNone(ys) == ys

RECURSIVE inplace_rtrim(_)
\* while (ys.length > 0 && ys[ys.length - 1] === undefined) ys.pop()
inplace_rtrim(ys) ==
  IF Len(ys) > 0 /\ ys[Len(ys)] = Undefined
  THEN inplace_rtrim(SubSeq(ys, 1, Len(ys) - 1))
  ELSE ys

\* the total index lens (the earlier revision of Lens.index): the getter is
\* xs[position]
index_total(position) == [kind |-> "index_total", position |-> position]

\* its setter: inside the array undefined removes the element and a value
\* replaces it; beyond the array a value is pushed after a fill of undefined
IndexTotalSet(position, xs, x) ==
  IF position < Len(xs)
  THEN LET a == SubSeq(xs, 1, position)
           z == SubSeq(xs, position + 2, Len(xs))
       IN IF x = Undefined
          THEN inplace_rtrim(a \o z)
          ELSE inplace_rtrim(a \o <<x>> \o z)
  ELSE IF x # Undefined
       THEN inplace_rtrim(xs \o [i \in 1 .. (position - Len(xs)) |-> Undefined] \o <<x>>)
       ELSE inplace_rtrim(xs)

RECURSIVE LensGetOk(_, _)
RECURSIVE LensGet(_, _)
RECURSIVE LensSetOk(_, _, _)
RECURSIVE LensSet(_, _, _)
RECURSIVE RelabelSet(_, _, _, _)
RECURSIVE RelabelSetOk(_, _, _, _)

\* TRUE when lens.get(s) returns, FALSE when it throws
LensGetOk(lens, s) ==
  CASE lens.kind = "index" -> within(lens.i, s)
    [] lens.kind = "seq" ->
         LensGetOk(lens.lens1, s) /\ LensGetOk(lens.lens2, LensGet(lens.lens1, s))
    [] lens.kind = "relabel" ->
         \A k \in Range(lens.keys) : LensGetOk(lens.lenses[k], s)
    [] OTHER -> TRUE

LensGet(lens, s) ==
  CASE lens.kind = "at" -> Prop(s, lens.k)
    [] lens.kind = "key" -> Prop(s, lens.k)
    [] lens.kind = "def" -> DefGet(lens.missing, s)
    [] lens.kind = "iso" -> Apply(lens.f, s)
    [] lens.kind = "index" -> Elem(s, lens.i)
    [] lens.kind = "index_total" -> Elem(s, lens.position)
    [] lens.kind = "seq" -> LensGet(lens.lens2, LensGet(lens.lens1, s))
    [] lens.kind = "relabel" ->
         [k \in Range(lens.keys) |-> LensGet(lens.lenses[k], s)]
    [] lens.kind = "omit" -> LensGet(pick(Picked(s, lens.ks)), s)
    [] lens.kind = "along" -> Spread(s, lens.k, LensGet(lens.i, Prop(s, lens.k)))

\* a relabel whose setters all write to the source they were given, the last
\* result being returned
RelabelSetLast(lens, r, t, n) ==
  IF n > Len(lens.keys) THEN r
  ELSE LensSet(lens.lenses[lens.keys[Len(lens.keys)]], r, Prop(t, lens.keys[Len(lens.keys)]))

\* the fold of Lens.relabel's setter over keys[n..]: r = lenses[k].set(r, t[k])
RelabelSet(lens, r, t, n) ==
  IF n > Len(lens.keys) THEN r
  ELSE RelabelSet(lens, LensSet(lens.lenses[lens.keys[n]], r, Prop(t, lens.keys[n])), t, n + 1)

RelabelSetOk(lens, r, t, n) ==
  IF n > Len(lens.keys) THEN TRUE
  ELSE /\ LensSetOk(lens.lenses[lens.keys[n]], r, Prop(t, lens.keys[n]))
       /\ RelabelSetOk(lens, LensSet(lens.lenses[lens.keys[n]], r, Prop(t, lens.keys[n])), t,
                       n + 1)

\* a composed setter that hands lens1 the part it read, whatever u
SeqSetBack(lens, s, u) == LensSet(lens.lens1, s, LensGet(lens.lens1, s))

\* the setter of Lens.seq: lens1.set(s, lens2.set(lens1.get(s), u))
SeqSet(lens, s, u) ==
  LensSet(lens.lens1, s, LensSet(lens.lens2, LensGet(lens.lens1, s), u))

\* TRUE when lens.set(s, t) returns, FALSE when it throws
LensSetOk(lens, s, t) ==
  CASE lens.kind = "index" -> within(lens.i, s)
    [] lens.kind = "seq" ->
         /\ LensGetOk(lens.lens1, s)
         /\ LensSetOk(lens.lens2, LensGet(lens.lens1, s), t)
         /\ LensSetOk(lens.lens1, s, LensSet(lens.lens2, LensGet(lens.lens1, s), t))
    [] lens.kind = "relabel" -> RelabelSetOk(lens, s, t, 1)
    [] OTHER -> TRUE

LensSet(lens, s, t) ==
  CASE lens.kind = "at" -> Spread(s, lens.k, t)
    [] lens.kind = "key" ->
         IF t = Undefined THEN Without(s, lens.k) ELSE Spread(s, lens.k, t)
    [] lens.kind = "def" -> DefSet(lens.missing, t)
    [] lens.kind = "iso" -> IsoSet(lens.g, t)
    [] lens.kind = "index" -> AssignIndex(s, lens.i, t)
    [] lens.kind = "index_total" -> IndexTotalSet(lens.position, s, t)
    [] lens.kind = "seq" -> SeqSet(lens, s, t)
    [] lens.kind = "relabel" -> RelabelSet(lens, s, t, 1)
    [] lens.kind = "omit" -> LensSet(pick(Picked(s, lens.ks)), s, t)
    [] lens.kind = "along" ->
         \* {...t, [k]: i.set(s[k], t[k])}
         Spread(t, lens.k, LensSet(lens.i, Prop(s, lens.k), Prop(t, lens.k)))

(***************************************************************************)
(* Stores.  A store is named by a string; Desc gives how it was built:     *)
(* Store.init, parent.via(lens), this.relabel(stores) or this.merge(other). *)
(***************************************************************************)
init == [kind |-> "init"]
via(parent, lens) == [kind |-> "via", parent |-> parent, lens |-> lens]
relabelStore(keys, stores) == [kind |-> "relabel", keys |-> keys, stores |-> stores]
merge(this, other) == [kind |-> "merge", this |-> this, other |-> other]

\* a record that builds a store over no store at all
recordOfAny(keys, stores) == relabelStore(keys, stores)

\* record: built on the first of the stores; throw "Empty record" when there is none
record(keys, stores) ==
  IF Len(keys) = 0 THEN [kind |-> "threw", message |-> "Empty record"]
  ELSE relabelStore(keys, stores)

\* st.at(k), for the stores update, merge and along call at on
AtOf(st, k) ==
  CASE st = "store" /\ k = "a" -> "r_a"
    [] st = "store" /\ k = "g" -> "r_g"
    [] st = "store" /\ k = "k" -> "r_k"
    [] st = "r_k" /\ k = "a" -> "k_a"
    [] st = "r_k" /\ k = "b" -> "k_b"
    [] st = "store" /\ k = "b" -> "r_bs"
    [] st = "store" /\ k = "c" -> "r_c"
    [] st = "r_c" /\ k = "d" -> "r_c_d"
    [] st = "r_c" /\ k = "e" -> "r_c_e"
    [] st = "small" /\ k = "a" -> "small_a"
    [] st = "small" /\ k = "d" -> "small_d"
    [] st = "small" /\ k = "e" -> "small_e"

\* an along that forgets the kept fields
alongSubOnly(this, k, sub, keep) == relabelStore(<<k>>, [j \in {k} |-> sub])

\* this.along(k, sub, ...keep): this.relabel({[k]: sub, ...identities}) with
\* identities[j] = this.at(j) for every kept j
along(this, k, sub, keep) ==
  relabelStore(<<k>> \o SelectSeq(keep, LAMBDA j : j # k),
               [j \in {k} \cup Range(keep) |-> IF j \in Range(keep) THEN AtOf(this, j) ELSE sub])

\* the stores of the model, over a root {a: number, b: number[], c: {d?: number, e: number}}:
\* those of the test suite, and three built outside the documented preconditions
\* (dup and dk relabel the same part twice, r_bsx is an iso of two functions that
\* are not inverses)
Desc(st) ==
  CASE st = "store" -> init
    [] st = "r_a" -> via("store", at("a"))
    [] st = "r_bs" -> via("store", at("b"))
    [] st = "r_c" -> via("store", at("c"))
    [] st = "r_c_e" -> via("r_c", at("e"))
    [] st = "rab" -> via("store", pick(<<"a", "b">>))
    [] st = "b0" -> via("r_bs", index(0))
    [] st = "b1" -> via("r_bs", index(1))
    [] st = "b_neg" -> via("r_bs", index(-1))
    [] st = "r_bsr" -> via("r_bs", iso("reverse", "reverse"))
    [] st = "bsr0" -> via("r_bsr", index(0))
    [] st = "c_d" -> via("r_c", key("d"))
    [] st = "c_d0" -> via("c_d", def(0))
    [] st = "r_a_and_c_e" -> relabelStore(<<"a", "e">>, [a |-> "r_a", e |-> "r_c_e"])
    [] st = "dup" -> relabelStore(<<"x", "y">>, [x |-> "r_a", y |-> "r_a"])
    [] st = "dk" -> relabelStore(<<"x", "y">>, [x |-> "c_d", y |-> "c_d0"])
    [] st = "r_bsx" -> via("r_bs", iso("reverse", "same"))
    [] st = "r_c_d" -> via("r_c", at("d"))
    [] st = "small" -> via("store", pick(<<"a">>))
    [] st = "small_a" -> via("small", at("a"))
    [] st = "small_d" -> via("small", at("d"))
    [] st = "small_e" -> via("small", at("e"))
    [] st = "other" -> merge("small", "r_c")
    [] st = "a_is_e" -> relabelStore(<<"a">>, [a |-> "r_c_e"])
    [] st = "over" -> merge("store", "a_is_e")
    [] st = "r_g" -> via("store", at("g"))
    [] st = "r_k" -> via("store", at("k"))
    [] st = "k_a" -> via("r_k", at("a"))
    [] st = "k_b" -> via("r_k", at("b"))
    [] st = "k_a_u" -> via("k_a", at("u"))
    [] st = "kag" -> along("store", "k", "k_a", <<"g">>)
    [] st = "k_ab" -> along("r_k", "a", "k_a_u", <<"b">>)
    [] st = "kag_along" -> along("store", "k", "k_ab", <<"g">>)
    [] st = "e0" -> via("store", index(0))
    [] st = "e1" -> via("store", index(1))
    [] st = "e2" -> via("store", index(2))
    [] st = "e3" -> via("store", index(3))
    [] st = "e4" -> via("store", index(4))
    [] st = "z_c_e" -> via("store", seq(at("c"), at("e")))
    [] st = "z_b1" -> via("store", seq(at("b"), index(1)))
    [] st = "z_c_d0" -> via("r_c", seq(key("d"), def(0)))
    [] st = "z_bsr0" -> via("r_bs", seq(iso("reverse", "reverse"), index(0)))
    [] st = "dbl" -> via("store", iso("double", "half"))
    [] st = "dbl_bump" -> via("dbl", iso("bump", "unbump"))
    [] st = "db" -> via("store", seq(iso("double", "half"), iso("bump", "unbump")))

Stores == {"store", "r_a", "r_bs", "r_c", "r_c_e", "rab", "b0", "b1", "r_bsr", "bsr0",
           "c_d", "c_d0", "r_a_and_c_e", "dup", "dk", "r_bsx", "b_neg"}

\* the stores of the tests 'along' and 'along along', over roots
\* {k: {a: number, b: number}, g: number} and {k: {a: {u: number, v: number}, b: number}, g: number}
AlongStores == {"kag", "kag_along"}

\* the stores built within the preconditions the lenses document: a relabel
\* over disjoint parts, an iso whose functions are inverses
Lawful == Stores \ {"dup", "dk", "r_bsx"}

\* the values user code hands to set, per store
RootVals == {[a |-> 0, b |-> <<1, 0>>, c |-> [e |-> 0]],
             [a |-> 1, b |-> <<0>>, c |-> [e |-> 1]]}
SetVals(st) ==
  CASE st = "store" -> RootVals
    [] st \in {"r_a", "r_c_e", "b0", "b1", "b_neg", "bsr0", "c_d0"} -> Val
    [] st \in {"r_bs", "r_bsr", "r_bsx"} -> Arrs
    [] st = "r_c" -> {[e |-> 1], [d |-> 0, e |-> 0]}
    [] st = "rab" -> {[a |-> 1, b |-> <<>>], [a |-> 0, b |-> <<0>>]}
    [] st = "c_d" -> Val \cup {Undefined}
    [] st = "r_a_and_c_e" -> [a : Val, e : Val]
    [] st = "dup" -> [x : Val, y : Val]
    [] st = "dk" -> {[x |-> 0, y |-> 0], [x |-> 1, y |-> 1]}
    [] st = "kag" -> [k : Val, g : Val]
    [] st = "kag_along" -> {[k |-> [a |-> 1, b |-> 1], g |-> 1],
                            [k |-> [a |-> 0, b |-> 1], g |-> 0],
                            [k |-> [a |-> 1, b |-> 0], g |-> 0]}

RECURSIVE StoreGetOk(_, _)
RECURSIVE StoreGet(_, _)
RECURSIVE Resolve(_, _, _)

\* TRUE when st.get() returns with the root holding root, FALSE when it throws
StoreGetOk(st, root) ==
  CASE Desc(st).kind = "init" -> TRUE
    [] Desc(st).kind = "via" ->
         /\ StoreGetOk(Desc(st).parent, root)
         /\ LensGetOk(Desc(st).lens, StoreGet(Desc(st).parent, root))
    [] Desc(st).kind = "relabel" ->
         \A k \in Range(Desc(st).keys) : StoreGetOk(Desc(st).stores[k], root)
    [] Desc(st).kind = "merge" ->
         StoreGetOk(Desc(st).this, root) /\ StoreGetOk(Desc(st).other, root)

\* st.get() with the root holding root
StoreGet(st, root) ==
  CASE Desc(st).kind = "init" -> root
    [] Desc(st).kind = "via" -> LensGet(Desc(st).lens, StoreGet(Desc(st).parent, root))
    [] Desc(st).kind = "relabel" ->
         [k \in Range(Desc(st).keys) |-> StoreGet(Desc(st).stores[k], root)]
    [] Desc(st).kind = "merge" ->
         \* {...this.get(), ...other.get()}
         [k \in (DOMAIN StoreGet(Desc(st).this, root))
                   \cup (DOMAIN StoreGet(Desc(st).other, root)) |->
            IF k \in DOMAIN StoreGet(Desc(st).other, root)
            THEN StoreGet(Desc(st).other, root)[k]
            ELSE StoreGet(Desc(st).this, root)[k]]

\* st.set(t) up the chain of via: this.set(lens.set(this.get(), t)) until the
\* store that writes (the root cell, a relabel or a merge store); ok is FALSE when a
\* get or a lens set on the way throws
Resolve(st, root, t) ==
  IF Desc(st).kind = "via"
  THEN IF /\ StoreGetOk(Desc(st).parent, root)
          /\ LensSetOk(Desc(st).lens, StoreGet(Desc(st).parent, root), t)
       THEN Resolve(Desc(st).parent, root,
                    LensSet(Desc(st).lens, StoreGet(Desc(st).parent, root), t))
       ELSE [ok |-> FALSE, target |-> st, t |-> t]
  ELSE [ok |-> TRUE, target |-> st, t |-> t]

(***************************************************************************)
(* The root store of Store.init and the program that uses it.              *)
(***************************************************************************)
VARIABLES
  s,            \* let s = s0: the current state
  depth,        \* transaction depth
  pending,      \* set since the last notify pass
  dict,         \* ListWithRemove: id -> listener (the store it was subscribed through)
  order,        \* ListWithRemove: ids in insertion order
  next_unique,  \* ListWithRemove: next id
  dirty,        \* ListWithRemove: an id was deleted since order was filtered
  stack,        \* the call stack: the calls of the library that are in progress
  call,         \* about the top-level call in progress, or the last one
  calls,        \* id -> times the listener was invoked during that top-level call
  seen,         \* id -> the value the listener received last
  offed,        \* the ids whose unsubscribe function was called
  fresh,        \* the root was written since the last notify pass started
  result,       \* what the last transaction(m) of this top-level call returned
  law           \* the run of check_laws

vars == <<s, depth, pending, dict, order, next_unique, dirty, stack, call, calls, seen,
          offed, fresh, result, law>>

\* the stores user code writes through in Spec
CoreStores == {"store", "r_a_and_c_e", "b1"}

\* the stores listeners are subscribed through in Spec
ListenStores == {"store", "r_a"}

\* the values user code writes through each of them
CoreVals(st) ==
  CASE st = "store" -> RootVals
    [] st = "r_a_and_c_e" -> {[a |-> 1, e |-> 1]}
    [] st = "b1" -> {0}

Ids == 0 .. (MaxListeners - 1)

s0 == [a |-> 0, b |-> <<1, 0>>, c |-> [e |-> 0]]

Top == stack[Len(stack)]
Pop == SubSeq(stack, 1, Len(stack) - 1)

\* user code is running: the program at top level, the body of a transaction,
\* or a listener
InUser == IF stack = <<>> THEN TRUE ELSE Top.kind \in {"body", "cb"}
InListener == \E i \in DOMAIN stack : stack[i].kind = "cb"

NoCall == [op |-> "none", st |-> "none", d0 |-> 0, nsets |-> 0, wrote |-> FALSE, changed |-> FALSE,
           lw |-> FALSE, live |-> {}, gone |-> {}, thrown |-> FALSE, ops |-> 0]
NoResult == [st |-> "none", a |-> Undefined, v |-> Undefined]

\* user code may make one more library call: the program makes a top-level call
\* when the last one has returned, and code inside a call makes at most MaxOps
CanCall == IF stack = <<>> THEN call.op = "none" ELSE call.ops < MaxOps

\* the record of the top-level call, after user code calls op on store st
Counted(op, st) ==
  IF stack = <<>>
  THEN [NoCall EXCEPT !.op = op, !.st = st, !.d0 = depth, !.live = DOMAIN dict,
                      !.gone = offed]
  ELSE [call EXCEPT !.ops = @ + 1]

\* notify() that tests pending alone
NotifyFiresAtAnyDepth(d, p) == p

\* notify() that tests depth alone
NotifyFiresWithoutSet(d, p) == d = 0

\* notify()'s condition
NotifyFires(d, p) == d = 0 /\ p

\* a transact that forgets depth++
EnteredNot(d) == d

\* transact's depth++
Entered(d) == d + 1

\* a transact that clears depth on its way out
LeftAll(d) == 0

\* transact's depth--
Left(d) == d - 1

\* order.filter(id => id in dict), when dirty
Filtered == SelectSeq(order, LAMBDA id : id \in DOMAIN dict)

\* notify() called with the stack stk, depth d and pending p (f: the root was
\* written since the last pass): when it fires, pending = false and
\* transact(() => listeners.iter(k => k())) starts the pass
Notify(stk, d, p, f) ==
  IF NotifyFires(d, p)
  THEN /\ pending' = FALSE
       /\ depth' = Entered(d)
       /\ order' = IF dirty THEN Filtered ELSE order
       /\ dirty' = FALSE
       /\ stack' = Append(stk, [kind |-> "iter", fresh |-> f,
                                order |-> IF dirty THEN Filtered ELSE order, pos |-> 1])
       /\ fresh' = FALSE
  ELSE /\ pending' = p
       /\ depth' = d
       /\ stack' = stk
       /\ fresh' = f
       /\ UNCHANGED <<order, dirty>>

\* an exception that puts the root back to the value it was built with
UnwindRollback ==
  /\ stack' = <<>>
  /\ s' = s0
  /\ UNCHANGED <<depth, pending, order, dirty, fresh>>

\* an exception leaves every call in progress: nothing catches it below the program
Unwind ==
  /\ stack' = <<>>
  /\ UNCHANGED <<s, depth, pending, order, dirty, fresh>>

\* a set that marks pending only when the value differs
PendingIfChanged(v) == v # s

\* pending = true, whatever the value v written
Pending(v) == TRUE

\* the root value when the stores of the program were built
Built == IF law.phase = "off" THEN s0 ELSE law.root0

\* a merge that looks up other's keys again at every write
OtherKeysNow(st) == DOMAIN StoreGet(Desc(st).other, s)

\* other_keys of merge: Object.keys(other.get()) when merge was called
OtherKeys(st) == DOMAIN StoreGet(Desc(st).other, Built)

\* the keys a forEach of relabel's set, merge's set or update goes through
Fields(frame) ==
  IF frame.op = "set" /\ Desc(frame.store).kind = "relabel"
  THEN Desc(frame.store).keys
  ELSE Keys(frame.t)

\* the store the forEach writes key k to
FieldStore(frame, k) ==
  IF frame.op = "update" THEN AtOf(frame.store, k)
  ELSE IF Desc(frame.store).kind = "relabel" THEN Desc(frame.store).stores[k]
  ELSE IF k \in OtherKeys(frame.store) THEN AtOf(Desc(frame.store).other, k)
  ELSE AtOf(Desc(frame.store).this, k)

\* st.set(t), called with the stack stk; c is the record of the top-level call
SetOn(stk, st, t, c) ==
  LET r == Resolve(st, s, t) IN
  IF ~r.ok
  THEN /\ Unwind
       /\ call' = [c EXCEPT !.thrown = TRUE]
  ELSE IF Desc(r.target).kind = "init"
  THEN \* s = v; pending = true; notify()
       /\ s' = r.t
       /\ Notify(stk, depth, Pending(r.t), TRUE)
       /\ call' = [c EXCEPT !.wrote = TRUE, !.changed = @ \/ r.t # s]
  ELSE \* this.transact(() => keys.forEach(k => stores[k].set(t[k])))
       /\ depth' = Entered(depth)
       /\ stack' = Append(stk, [kind |-> "multi", op |-> "set", store |-> r.target,
                                t |-> r.t, n |-> 1])
       /\ call' = c
       /\ UNCHANGED <<s, pending, order, dirty, fresh>>

Init ==
  /\ s = s0
  /\ depth = 0
  /\ pending = FALSE
  /\ dict = <<>>
  /\ order = <<>>
  /\ next_unique = 0
  /\ dirty = FALSE
  /\ stack = <<>>
  /\ call = NoCall
  /\ calls = [i \in Ids |-> 0]
  /\ seen = [i \in Ids |-> Undefined]
  /\ fresh = FALSE
  /\ offed = {}
  /\ result = NoResult
  /\ law = [phase |-> "off"]

\* the body frame of the transaction user code is in, told of the set it has
\* just made (of none when what it has just made was another call)
Noted(st, t) ==
  IF stack # <<>> /\ Top.kind = "body"
  THEN Append(Pop, [Top EXCEPT !.st = st, !.v = t])
  ELSE stack

\* user code calls st.set(t)
SetCall(st, t) ==
  /\ InUser
  /\ CanCall
  /\ SetOn(Noted(st, t), st, t,
           [Counted("set", st) EXCEPT !.nsets = IF InListener THEN @ ELSE @ + 1,
                                  !.lw = @ \/ InListener])
  /\ UNCHANGED <<dict, next_unique, calls, seen, offed, result>>

Set(st, t) == SetCall(st, t) /\ UNCHANGED law

\* the forEach of a relabel store's set, a merge store's set or update writes
\* its next field
MultiStep ==
  /\ stack # <<>>
  /\ Top.kind = "multi"
  /\ Top.n <= Len(Fields(Top))
  /\ LET k == Fields(Top)[Top.n] IN
       SetOn(Append(Pop, [Top EXCEPT !.n = @ + 1]), FieldStore(Top, k), Top.t[k], call)
  /\ UNCHANGED <<dict, next_unique, calls, seen, offed, result, law>>

\* user code calls st.update(parts): transact's depth++, then the forEach
UpdateCall(st, parts) ==
  /\ InUser
  /\ CanCall
  /\ depth' = Entered(depth)
  /\ stack' = Append(Noted("none", Undefined),
                     [kind |-> "multi", op |-> "update", store |-> st, t |-> parts, n |-> 1])
  /\ call' = Counted("update", st)
  /\ UNCHANGED <<s, pending, dict, order, next_unique, dirty, calls, seen, offed, fresh,
                 result>>

\* the forEach is over: transact's depth-- and notify()
MultiEnd ==
  /\ stack # <<>>
  /\ Top.kind = "multi"
  /\ Top.n > Len(Fields(Top))
  /\ Notify(Pop, Left(depth), pending, fresh)
  /\ UNCHANGED <<s, dict, next_unique, call, calls, seen, offed, result, law>>

\* user code calls transaction(m) on a store: transact's depth++, then m runs
Transaction ==
  /\ InUser
  /\ CanCall
  /\ depth < MaxDepth
  /\ depth' = Entered(depth)
  /\ stack' = Append(Noted("none", Undefined),
                     [kind |-> "body", st |-> "none", v |-> Undefined])
  /\ call' = Counted("transaction", "none")
  /\ UNCHANGED <<s, pending, dict, order, next_unique, dirty, calls, seen, offed, fresh,
                 result, law>>

\* the body m returns (a = m()), then transact's depth-- and notify().  The body
\* returns undefined, or x.set(v).get() when that set is the last thing it did.
BodyEnd(get) ==
  /\ stack # <<>>
  /\ Top.kind = "body"
  /\ get => Top.st # "none" /\ StoreGetOk(Top.st, s)
  /\ Notify(Append(Pop, [kind |-> "ret",
                         a |-> IF get THEN StoreGet(Top.st, s) ELSE Undefined,
                         st |-> IF get THEN Top.st ELSE "none",
                         v |-> IF get THEN Top.v ELSE Undefined]),
            Left(depth), pending, fresh)
  /\ UNCHANGED <<s, dict, next_unique, call, calls, seen, offed, result, law>>

\* a transaction that reads the store again when it returns
TransactionValueAtReturn(frame) ==
  IF frame.st = "none" THEN frame.a ELSE StoreGet(frame.st, s)

\* what transaction(m) returns: return a
TransactionValue(frame) == frame.a

\* transaction(m) returns to its caller
TransactionReturn ==
  /\ stack # <<>>
  /\ Top.kind = "ret"
  /\ stack' = Pop
  /\ result' = [a |-> TransactionValue(Top), st |-> Top.st, v |-> Top.v]
  /\ UNCHANGED <<s, depth, pending, dict, order, next_unique, dirty, call, calls, seen, offed,
                 fresh, law>>

\* user code throws inside a transaction body or a listener
Throw ==
  /\ stack # <<>>
  /\ Top.kind \in {"body", "cb"}
  /\ Unwind
  /\ call' = [call EXCEPT !.thrown = TRUE]
  /\ UNCHANGED <<dict, next_unique, calls, seen, offed, result, law>>

\* listeners.push(a): dict[id] = a
Pushed(st) ==
  [i \in (DOMAIN dict) \cup {next_unique} |-> IF i = next_unique THEN st ELSE dict[i]]

\* st.on(k): listeners.push(() => k(st.get()))
On(st) ==
  /\ InUser
  /\ CanCall
  /\ next_unique < MaxListeners
  /\ dict' = Pushed(st)
  /\ order' = Append(order, next_unique)
  /\ next_unique' = next_unique + 1
  /\ call' = IF stack = <<>> THEN call ELSE Counted("on", st)
  /\ UNCHANGED <<s, depth, pending, dirty, stack, calls, seen, offed, fresh, result, law>>

\* an unsubscribe function that deletes nothing
DeletedNothing(id) == dict

\* delete dict[id]
Deleted(id) == [i \in (DOMAIN dict) \ {id} |-> dict[i]]

\* the function returned by on: delete dict[id]; dirty = true
Off(id) ==
  /\ InUser
  /\ CanCall
  /\ id < next_unique
  /\ dict' = Deleted(id)
  /\ dirty' = TRUE
  /\ call' = IF stack = <<>> THEN call ELSE Counted("off", "none")
  /\ offed' = offed \cup {id}
  /\ UNCHANGED <<s, depth, pending, order, next_unique, stack, calls, seen, fresh, result, law>>

\* a registry that reaches only the listeners subscribed through the root
LiveOnRoot(id) == id \in DOMAIN dict /\ dict[id] = "store"

\* the test of iter's forEach: id in dict
Live(id) == id \in DOMAIN dict

\* what on's wrapper hands the callback: k(this.get())
Delivered(st) == StoreGet(st, s)

\* order.forEach: the next id; a listener still in dict is invoked
IterCore ==
  /\ stack # <<>>
  /\ Top.kind = "iter"
  /\ Top.pos <= Len(Top.order)
  /\ LET id == Top.order[Top.pos]
         rest == Append(Pop, [Top EXCEPT !.pos = @ + 1])
     IN IF Live(id)
        THEN IF StoreGetOk(dict[id], s)
             THEN /\ stack' = Append(rest, [kind |-> "cb", id |-> id])
                  /\ calls' = [calls EXCEPT ![id] = @ + 1]
                  /\ seen' = [seen EXCEPT ![id] = Delivered(dict[id])]
                  /\ UNCHANGED call
             ELSE /\ stack' = <<>>
                  /\ call' = [call EXCEPT !.thrown = TRUE]
                  /\ UNCHANGED <<calls, seen>>
        ELSE /\ stack' = rest
             /\ UNCHANGED <<call, calls, seen>>
  /\ UNCHANGED <<s, depth, pending, dict, order, next_unique, dirty, offed, fresh, result>>

IterStep ==
  /\ IterCore
  /\ UNCHANGED law

\* the listener returns
CallbackEnd ==
  /\ stack # <<>>
  /\ Top.kind = "cb"
  /\ stack' = Pop
  /\ UNCHANGED <<s, depth, pending, dict, order, next_unique, dirty, call, calls, seen, offed,
                 fresh, result, law>>

\* the pass is over: transact's depth-- and notify()
IterEnd ==
  /\ stack # <<>>
  /\ Top.kind = "iter"
  /\ Top.pos > Len(Top.order)
  /\ Notify(Pop, Left(depth), pending, fresh)
  /\ UNCHANGED <<s, dict, next_unique, call, calls, seen, offed, result, law>>

\* the top-level call has returned (or raised) to the program, which goes on
Returned ==
  /\ stack = <<>>
  /\ call.op # "none"
  /\ call' = NoCall
  /\ calls' = [i \in Ids |-> 0]
  /\ seen' = [i \in Ids |-> Undefined]
  /\ result' = NoResult
  /\ UNCHANGED <<s, depth, pending, dict, order, next_unique, dirty, stack, offed, fresh,
                 law>>

Next ==
  \/ \E st \in CoreStores : \E t \in CoreVals(st) : Set(st, t)
  \/ MultiStep
  \/ MultiEnd
  \/ Transaction
  \/ \E get \in BOOLEAN : BodyEnd(get)
  \/ TransactionReturn
  \/ Throw
  \/ \E st \in ListenStores : On(st)
  \/ \E id \in Ids : Off(id)
  \/ IterStep
  \/ CallbackEnd
  \/ IterEnd
  \/ Returned

Spec == Init /\ [][Next]_vars

(***************************************************************************)
(* The store laws: the program of check_laws.  On a root holding root0,     *)
(* with the listener of the test suite's init subscribed, it evaluates      *)
(*   run 1:  s.set(a).get()  and then  .set(b).get()                        *)
(*   run 2:  s.set(b).get()            on a new root holding root0          *)
(*   run 3:  s.set(s.get()).get()      on a new root holding root0          *)
(* and keeps what each get returned.  A run that throws is left.            *)
(***************************************************************************)
\* the initial states of the roots
LawRoots == {s0, [a |-> 1, b |-> <<0>>, c |-> [d |-> 0, e |-> 1]]}

\* the run a step of the program belongs to
Run(pc) ==
  CASE pc \in {"set_a", "get_a", "set_b", "get_ab"} -> 1
    [] pc \in {"set_b_alone", "get_b"} -> 2
    [] pc \in {"get_0", "set_0", "get_00"} -> 3

\* the step after pc
After(pc) ==
  CASE pc = "set_a" -> "get_a"
    [] pc = "get_a" -> "set_b"
    [] pc = "set_b" -> "get_ab"
    [] pc = "get_ab" -> "new_2"
    [] pc = "new_2" -> "set_b_alone"
    [] pc = "set_b_alone" -> "get_b"
    [] pc = "get_b" -> "new_3"
    [] pc = "new_3" -> "get_0"
    [] pc = "get_0" -> "set_0"
    [] pc = "set_0" -> "get_00"
    [] pc = "get_00" -> "done"

\* where the program goes on when the run of pc throws
Leave(pc) ==
  CASE Run(pc) = 1 -> "new_2"
    [] Run(pc) = 2 -> "new_3"
    [] Run(pc) = 3 -> "done"

\* const store = Store.init(root0); store.on(x => { current = x; ... })
NewRoot(root0) ==
  /\ s = root0
  /\ depth = 0
  /\ pending = FALSE
  /\ dict = [i \in {0} |-> "store"]
  /\ order = <<0>>
  /\ next_unique = 1
  /\ dirty = FALSE
  /\ stack = <<>>
  /\ call = NoCall
  /\ calls = [i \in Ids |-> 0]
  /\ seen = [i \in Ids |-> Undefined]
  /\ fresh = FALSE
  /\ offed = {}
  /\ result = NoResult

\* the roots the stores of a test are built on
Roots(st) ==
  CASE st = "kag" -> {[k |-> [a |-> 1, b |-> 0], g |-> 1], [k |-> [a |-> 0, b |-> 1], g |-> 0]}
    [] st = "kag_along" -> {[k |-> [a |-> [u |-> 1, v |-> 0], b |-> 1], g |-> 0],
                            [k |-> [a |-> [u |-> 0, v |-> 1], b |-> 0], g |-> 0]}
    [] OTHER -> LawRoots

LawInit ==
  \E st \in Stores \cup AlongStores : \E root0 \in Roots(st) : \E a, b \in SetVals(st) :
    /\ NewRoot(root0)
    /\ law = [phase |-> "on", pc |-> "set_a", st |-> st, a |-> a, b |-> b, root0 |-> root0,
              threw |-> {}, got |-> {}, get_a |-> Undefined, get_ab |-> Undefined,
              get_b |-> Undefined, get_0 |-> Undefined, get_00 |-> Undefined]

\* the value the set of step pc writes
Written(pc) ==
  CASE pc = "set_a" -> law.a
    [] pc \in {"set_b", "set_b_alone"} -> law.b
    [] pc = "set_0" -> law.get_0

\* the program calls s.set(...)
LawSet ==
  /\ stack = <<>>
  /\ law.pc \in {"set_a", "set_b", "set_b_alone", "set_0"}
  /\ SetCall(law.st, Written(law.pc))
  /\ law' = [law EXCEPT !.pc = After(@)]

\* the set has returned and the program calls .get(); an exception of either
\* ends the run
LawGet ==
  /\ stack = <<>>
  /\ law.pc \in {"get_a", "get_ab", "get_b", "get_0", "get_00"}
  /\ law' = IF call.thrown \/ ~StoreGetOk(law.st, s)
            THEN [law EXCEPT !.threw = @ \cup {Run(law.pc)}, !.pc = Leave(@)]
            ELSE [law EXCEPT ![law.pc] = StoreGet(law.st, s), !.got = @ \cup {law.pc},
                             !.pc = After(@)]
  /\ UNCHANGED <<s, depth, pending, dict, order, next_unique, dirty, stack, call, calls, seen,
                 offed, fresh, result>>

\* the next run starts on a new root holding root0
LawNew ==
  /\ stack = <<>>
  /\ law.pc \in {"new_2", "new_3"}
  /\ s' = law.root0
  /\ depth' = 0
  /\ pending' = FALSE
  /\ dict' = [i \in {0} |-> "store"]
  /\ order' = <<0>>
  /\ next_unique' = 1
  /\ dirty' = FALSE
  /\ call' = NoCall
  /\ calls' = [i \in Ids |-> 0]
  /\ seen' = [i \in Ids |-> Undefined]
  /\ fresh' = FALSE
  /\ offed' = {}
  /\ result' = NoResult
  /\ law' = [law EXCEPT !.pc = After(@)]
  /\ UNCHANGED stack

LawNext ==
  \/ LawSet
  \/ LawGet
  \/ LawNew
  \/ MultiStep
  \/ MultiEnd
  \/ IterStep
  \/ CallbackEnd
  \/ IterEnd
  \/ Returned

SpecLaws == LawInit /\ [][LawNext]_vars

(***************************************************************************)
(* Writing several fields at once: a program that, on a root holding root0  *)
(* with one listener subscribed, builds other = store.pick('a').merge(     *)
(* store.at('c')) and makes up to MaxCalls calls of set through the merge   *)
(* store, through a relabel store and through the key store c_d, and of     *)
(* store.update.                                                            *)
(***************************************************************************)
FieldStores == {"other", "r_a_and_c_e", "c_d"}

\* the values the program writes through each of them
FieldVals(st) ==
  CASE st = "other" -> {[a |-> 1, e |-> 1], [a |-> 0, d |-> 1, e |-> 0]}
    [] st = "r_a_and_c_e" -> {[a |-> 1, e |-> 1]}
    [] st = "c_d" -> {0, Undefined}

\* the parts the program hands to store.update
UpdateVals == {[a |-> 1], [a |-> 1, b |-> <<0>>],
               [a |-> 0, b |-> <<>>, c |-> [e |-> 1]]}

FieldsInit ==
  \E root0 \in LawRoots :
    /\ NewRoot(root0)
    /\ law = [phase |-> "fields", root0 |-> root0, pre |-> root0, arg |-> <<>>, n |-> 0,
              ctor |-> "none", made |-> [kind |-> "none"]]

\* the program calls st.set(t)
FieldsSet(st, t) ==
  /\ stack = <<>>
  /\ law.n < MaxCalls
  /\ SetCall(st, t)
  /\ law' = [law EXCEPT !.n = @ + 1, !.pre = s, !.arg = t]

\* the program calls store.update(parts)
Update(parts) ==
  /\ stack = <<>>
  /\ law.n < MaxCalls
  /\ UpdateCall("store", parts)
  /\ law' = [law EXCEPT !.n = @ + 1, !.pre = s, !.arg = parts]

\* the records of stores the program builds a store over
StoreMaps == {<<>>, [x |-> "r_a"], [x |-> "r_a", y |-> "r_c_e"]}

\* the program calls store.relabel(stores), or record(stores)
Construct(ctor, stores) ==
  /\ stack = <<>>
  /\ law.ctor = "none"
  /\ law' = [law EXCEPT !.ctor = ctor,
                        !.made = IF ctor = "relabel" THEN relabelStore(Keys(stores), stores)
                                 ELSE record(Keys(stores), stores)]
  /\ UNCHANGED <<s, depth, pending, dict, order, next_unique, dirty, stack, call, calls,
                 seen, offed, fresh, result>>

FieldsNext ==
  \/ \E st \in FieldStores : \E t \in FieldVals(st) : FieldsSet(st, t)
  \/ \E ctor \in {"relabel", "record"} : \E stores \in StoreMaps : Construct(ctor, stores)
  \/ \E parts \in UpdateVals : Update(parts)
  \/ MultiStep
  \/ MultiEnd
  \/ IterStep
  \/ CallbackEnd
  \/ IterEnd
  \/ Returned

SpecFields == FieldsInit /\ [][FieldsNext]_vars

(***************************************************************************)
(* Objects and references: the same sets through chains of at, with the    *)
(* records of the root value laid out in a heap.  heap[ref] is an object;   *)
(* the field c of the root object holds the reference of the object c.      *)
(* The program keeps the reference an earlier store.get() returned.         *)
(***************************************************************************)
\* an at setter that assigns into the object it was given
AllocInPlace(heap, ref, obj) == [heap |-> [heap EXCEPT ![ref] = obj], ref |-> ref]

\* the object literal of Lens.at's setter: a new object, the copy of heap[ref]
\* with one key replaced
Alloc(heap, ref, obj) == [heap |-> Append(heap, obj), ref |-> Len(heap) + 1]

\* the root value root laid out as objects: the root object and the object c
HeapOf(root) == <<[a |-> root.a, b |-> root.b, c |-> 2], root.c>>

\* the value reachable from the root object at ref
Deref(heap, ref) == [a |-> heap[ref].a, b |-> heap[ref].b, c |-> heap[heap[ref].c]]

RECURSIVE HeapGet(_, _, _)
RECURSIVE HeapSet(_, _, _, _)

\* st.get(): the reference (or the number) the store st reads
HeapGet(st, heap, root) ==
  IF Desc(st).kind = "init" THEN root
  ELSE heap[HeapGet(Desc(st).parent, heap, root)][Desc(st).lens.k]

\* st.set(v) through a chain of at: this.set({...this.get(), [k]: v}) up to the
\* root cell
HeapSet(st, heap, root, v) ==
  IF Desc(st).kind = "init" THEN [heap |-> heap, root |-> v]
  ELSE LET ref == HeapGet(Desc(st).parent, heap, root)
           new == Alloc(heap, ref, Spread(heap[ref], Desc(st).lens.k, v))
       IN HeapSet(Desc(st).parent, new.heap, root, new.ref)

\* the chains of at the program writes through, and what it writes
ChainStores == {"r_a", "r_c_e", "r_c_d"}

HeapInit ==
  \E root0 \in LawRoots :
    /\ NewRoot(root0)
    /\ law = [phase |-> "heap", heap |-> HeapOf(root0), root |-> 1, held |-> 1,
              root0 |-> root0, pre |-> root0, arg |-> Undefined, n |-> 0]

\* the program calls st.set(v)
ChainSet(st, v) ==
  /\ stack = <<>>
  /\ law.n < MaxCalls
  /\ SetCall(st, v)
  /\ law' = [law EXCEPT !.n = @ + 1, !.pre = s, !.arg = v,
                        !.heap = HeapSet(st, law.heap, law.root, v).heap,
                        !.root = HeapSet(st, law.heap, law.root, v).root]

HeapNext ==
  \/ \E st \in ChainStores : \E v \in Val : ChainSet(st, v)
  \/ IterStep
  \/ CallbackEnd
  \/ IterEnd
  \/ Returned

SpecHeap == HeapInit /\ [][HeapNext]_vars

(***************************************************************************)
(* ondiff (SpecDiff): on the same heap, a program that subscribes the       *)
(* listener of the test suite with store.on and a callback k with          *)
(* ost.ondiff(k), and then makes up to MaxCalls calls of set: through a     *)
(* chain of at, or store.set(store.get()).                                  *)
(***************************************************************************)
\* an ondiff that takes every value for a new one
DiffersAlways(new_value, old_value) == TRUE

\* new_value !== old_value: two references to objects, or two numbers
Differs(new_value, old_value) == new_value # old_value

\* the stores the program calls ondiff on, and those it writes through
DiffStores == {"store", "r_a", "r_c", "r_c_e"}
DiffSetStores == {"r_a", "r_c_e"}

DiffInit ==
  \E root0 \in LawRoots : \E ost \in DiffStores :
    /\ s = root0
    /\ depth = 0
    /\ pending = FALSE
    /\ dict = [i \in {0, 1} |-> IF i = 0 THEN "store" ELSE ost]
    /\ order = <<0, 1>>
    /\ next_unique = 2
    /\ dirty = FALSE
    /\ stack = <<>>
    /\ call = NoCall
    /\ calls = [i \in Ids |-> 0]
    /\ seen = [i \in Ids |-> Undefined]
    /\ fresh = FALSE
    /\ offed = {}
    /\ result = NoResult
    /\ law = [phase |-> "diff", heap |-> HeapOf(root0), root |-> 1, ost |-> ost, n |-> 0,
              old_value |-> HeapGet(ost, HeapOf(root0), 1),
              last |-> HeapGet(ost, HeapOf(root0), 1),
              diffs |-> 0, diffs_pre |-> 0, focus_pre |-> HeapGet(ost, HeapOf(root0), 1),
              same |-> FALSE,
              cmp |-> [ran |-> FALSE, new |-> Undefined, last |-> Undefined, invoked |-> FALSE],
              k |-> [new_value |-> Undefined, old_value |-> Undefined]]

\* what the program notes before it calls set
Before(same) ==
  [law EXCEPT !.n = @ + 1, !.diffs_pre = law.diffs, !.same = same,
              !.focus_pre = HeapGet(law.ost, law.heap, law.root),
              !.cmp = [ran |-> FALSE, new |-> Undefined, last |-> Undefined, invoked |-> FALSE]]

\* the program calls st.set(v)
DiffSet(st, v) ==
  /\ stack = <<>>
  /\ law.n < MaxCalls
  /\ SetCall(st, v)
  /\ law' = [Before(FALSE) EXCEPT !.heap = HeapSet(st, law.heap, law.root, v).heap,
                                  !.root = HeapSet(st, law.heap, law.root, v).root]

\* the program calls store.set(store.get())
DiffSetSame ==
  /\ stack = <<>>
  /\ law.n < MaxCalls
  /\ SetCall("store", s)
  /\ law' = Before(TRUE)

\* order.forEach reaches the next listener; the wrapper of ondiff compares
\* this.get() with old_value and calls k when they differ
DiffStep ==
  /\ IterCore
  /\ LET id == Top.order[Top.pos]
         new_value == HeapGet(law.ost, law.heap, law.root)
     IN IF id = 1 /\ Live(id)
        THEN IF Differs(new_value, law.old_value)
             THEN law' = [law EXCEPT !.cmp = [ran |-> TRUE, new |-> new_value,
                                              last |-> law.last, invoked |-> TRUE],
                                     !.k = [new_value |-> new_value,
                                            old_value |-> law.old_value],
                                     !.diffs = @ + 1,
                                     !.last = new_value,
                                     !.old_value = new_value]
             ELSE law' = [law EXCEPT !.cmp = [ran |-> TRUE, new |-> new_value,
                                              last |-> law.last, invoked |-> FALSE]]
        ELSE UNCHANGED law

DiffNext ==
  \/ \E st \in DiffSetStores : \E v \in Val : DiffSet(st, v)
  \/ DiffSetSame
  \/ DiffStep
  \/ CallbackEnd
  \/ IterEnd
  \/ Returned

SpecDiff == DiffInit /\ [][DiffNext]_vars

(***************************************************************************)
(* Store.each and Store.arr (SpecArr): a root store holding an array, kept  *)
(* in a heap of arrays, with the listener of the test suite subscribed.     *)
(* The program may take es = Store.each(store) once, and makes up to        *)
(* MaxCalls calls: es[i].set(x), store.set(xs) or Store.arr(store, k)(args). *)
(***************************************************************************)
\* store.via(Lens.index(i)) on the root store
EachStore(st, i) ==
  CASE i = 0 -> "e0"
    [] i = 1 -> "e1"
    [] i = 2 -> "e2"
    [] i = 3 -> "e3"
    [] OTHER -> "e4"

\* an each whose stores are off by one position
eachShifted(st, root) == [i \in 1 .. Len(StoreGet(st, root)) |-> EachStore(st, i)]

\* Store.each: store.get().map((_, i) => store.via(Lens.index(i)))
each(st, root) == [i \in 1 .. Len(StoreGet(st, root)) |-> EachStore(st, i - 1)]

\* an arr that runs the method on the array the store holds
SliceNone(heap, ref) == [heap |-> heap, ref |-> ref]

\* xs.slice(): a new array with the elements of heap[ref]
Slice(heap, ref) == [heap |-> Append(heap, heap[ref]), ref |-> Len(heap) + 1]

Min(a, b) == IF a <= b THEN a ELSE b

\* xs[k](...args) for push, pop and splice(start, deleteCount, item): the array
\* afterwards and what the method returns
Method(k, xs, args) ==
  CASE k = "push" -> [xs |-> Append(xs, args[1]), ret |-> Len(xs) + 1]
    [] k = "pop" ->
         IF xs = <<>> THEN [xs |-> xs, ret |-> Undefined]
         ELSE [xs |-> SubSeq(xs, 1, Len(xs) - 1), ret |-> xs[Len(xs)]]
    [] k = "splice" ->
         LET start == Min(args[1], Len(xs))
             count == Min(args[2], Len(xs) - start)
         IN [xs |-> SubSeq(xs, 1, start) \o <<args[3]>>
                      \o SubSeq(xs, start + count + 1, Len(xs)),
             ret |-> SubSeq(xs, start + 1, start + count)]

\* the calls of array methods the program makes
ArrCalls ==
  {[k |-> "push", args |-> <<x>>] : x \in Val}
    \cup {[k |-> "pop", args |-> <<>>]}
    \cup {[k |-> "splice", args |-> <<start, count, 1>>] : start \in 0 .. 1, count \in 0 .. 2}

ArrInit ==
  \E root0 \in Arrs :
    /\ NewRoot(root0)
    /\ law = [phase |-> "arr", heap |-> <<root0>>, root |-> 1, n |-> 0,
              made |-> FALSE, each |-> <<>>, len0 |-> 0,
              op |-> "none", pre |-> root0, pre_ref |-> 1, i |-> 0, x |-> Undefined,
              k |-> "none", args |-> <<>>, ret |-> Undefined]

\* const es = Store.each(store)
Each ==
  /\ stack = <<>>
  /\ call.op = "none"
  /\ ~law.made
  /\ law' = [law EXCEPT !.made = TRUE, !.each = each("store", s), !.len0 = Len(s)]
  /\ UNCHANGED <<s, depth, pending, dict, order, next_unique, dirty, stack, call, calls,
                 seen, offed, fresh, result>>

\* the program calls st.set(v), st being es[i] or the root store; a set that
\* returns has put a new array in the root cell
ArrSet(op, i, st, v) ==
  /\ stack = <<>>
  /\ law.n < MaxCalls
  /\ SetCall(st, v)
  /\ law' = [law EXCEPT !.n = @ + 1, !.op = op, !.i = i, !.x = v, !.pre = s,
                        !.pre_ref = law.root,
                        !.heap = IF Resolve(st, s, v).ok
                                 THEN Append(@, Resolve(st, s, v).t) ELSE @,
                        !.root = IF Resolve(st, s, v).ok THEN Len(law.heap) + 1 ELSE @]

EachSet(i, x) ==
  /\ law.made
  /\ i \in DOMAIN law.each
  /\ ArrSet("each_set", i, law.each[i], x)

\* Store.arr(store, k)(...args): xs = store.get().slice(); ret = xs[k](...args);
\* store.set(xs); return ret
Arr(c) ==
  /\ stack = <<>>
  /\ law.n < MaxCalls
  /\ LET xs == Slice(law.heap, law.root)
         done == Method(c.k, xs.heap[xs.ref], c.args)
     IN /\ Len(done.xs) <= MaxLen
        /\ SetCall("store", done.xs)
        /\ law' = [law EXCEPT !.n = @ + 1, !.op = "arr", !.k = c.k, !.args = c.args,
                              !.pre = s, !.pre_ref = law.root,
                              !.heap = [xs.heap EXCEPT ![xs.ref] = done.xs],
                              !.root = xs.ref,
                              !.ret = done.ret]

ArrNext ==
  \/ Each
  \/ \E i \in 1 .. MaxLen : \E x \in Val : EachSet(i, x)
  \/ \E xs \in Arrs : ArrSet("set", 0, "store", xs)
  \/ \E c \in ArrCalls : Arr(c)
  \/ IterStep
  \/ CallbackEnd
  \/ IterEnd
  \/ Returned

SpecArr == ArrInit /\ [][ArrNext]_vars

(***************************************************************************)
(* The history zipper of module Undo (SpecUndo).  A Stack is the sequence   *)
(* of its elements from the top; null is the empty sequence.  The program   *)
(* starts from Undo.init(now) and applies undo, redo, advance and           *)
(* advance_to(v), with at most MaxHist states in the past.                  *)
(***************************************************************************)
\* an advance that keeps the future
advanceKeepNext(h) == [now |-> h.now, prev |-> <<h.now>> \o h.prev, next |-> h.next]

undo(h) ==
  IF h.prev # <<>>
  THEN [now |-> Head(h.prev), prev |-> Tail(h.prev), next |-> <<h.now>> \o h.next]
  ELSE h

redo(h) ==
  IF h.next # <<>>
  THEN [now |-> Head(h.next), prev |-> <<h.now>> \o h.prev, next |-> Tail(h.next)]
  ELSE h

advance(h) == [now |-> h.now, prev |-> <<h.now>> \o h.prev, next |-> <<>>]

Undo_init(now) == [now |-> now, prev |-> <<>>, next |-> <<>>]

\* Lens.at('now').set(advance(h), v)
advance_to(v, h) == LensSet(at("now"), advance(h), v)

\* op applied to h
UndoOp(op, v, h) ==
  CASE op = "undo" -> undo(h)
    [] op = "redo" -> redo(h)
    [] op = "advance" -> advance(h)
    [] op = "advance_to" -> advance_to(v, h)

UndoInit ==
  /\ NewRoot(s0)
  /\ \E now \in Val :
       law = [phase |-> "undo", h |-> Undo_init(now), pre |-> Undo_init(now), op |-> "none",
              v |-> Undefined]

\* modify(op)
UndoStep(op, v) ==
  /\ law.phase = "undo"
  /\ op \in {"advance", "advance_to"} => Len(law.h.prev) < MaxHist
  /\ law' = [law EXCEPT !.h = UndoOp(op, v, law.h), !.pre = law.h, !.op = op, !.v = v]
  /\ UNCHANGED <<s, depth, pending, dict, order, next_unique, dirty, stack, call, calls,
                 seen, offed, fresh, result>>

UndoNext ==
  \/ UndoStep("undo", Undefined)
  \/ UndoStep("redo", Undefined)
  \/ UndoStep("advance", Undefined)
  \/ \E v \in Val : UndoStep("advance_to", v)

SpecUndo == UndoInit /\ [][UndoNext]_vars

(***************************************************************************)
(* ListWithRemove on its own (SpecList), in its two revisions: the one     *)
(* with the dirty flag, and the earlier one that sets order to null on a    *)
(* removal and rebuilds it from the keys of dict.  xs is the array the      *)
(* variable order refers to, or referred to before it was set to null;      *)
(* forEach and map go through the elements the array had when they began.   *)
(* Callers push, call the functions push returned, and iterate; while an    *)
(* iteration is in progress, it is the elements being called that do.       *)
(***************************************************************************)
Variants == {"dirty", "null"}

\* the ids in increasing order
IdSeq == [i \in 1 .. MaxIds + 1 |-> i - 1]

\* an order rebuilt from the array of before
RebuiltFromOrder(d, xs) == SelectSeq(xs, LAMBDA id : id \in d)

\* the keys of dict in decreasing order
RebuiltDescending(d, xs) == reverse(SelectSeq(IdSeq, LAMBDA id : id \in d))

\* Object.keys(dict).sort(cmp)
Rebuilt(d, xs) == SelectSeq(IdSeq, LAMBDA id : id \in d)

ListInit ==
  /\ NewRoot(s0)
  /\ \E v \in Variants :
       law = [phase |-> "list", variant |-> v, dict |-> {}, xs |-> <<>>, isnull |-> FALSE,
              dirty |-> FALSE, next_unique |-> 0,
              iter |-> FALSE, len |-> 0, pos |-> 1, ran |-> FALSE,
              passes |-> 0, invoked |-> {}, removed |-> FALSE,
              during |-> {}, late |-> {}, prior |-> {},
              start |-> {}, trace |-> <<>>]

\* code that may call push or a delete function: any caller between
\* iterations, an element that was called during one
ListUser == ~law.iter \/ law.ran

Idle ==
  UNCHANGED <<s, depth, pending, dict, order, next_unique, dirty, stack, call, calls,
              seen, offed, fresh, result>>

\* push(a)
ListPush ==
  /\ law.phase = "list"
  /\ ListUser
  /\ law.next_unique < MaxIds
  /\ law' = [law EXCEPT !.next_unique = @ + 1,
                        !.dict = @ \cup {law.next_unique},
                        !.xs = IF law.variant = "null" /\ law.isnull THEN @
                               ELSE Append(@, law.next_unique),
                        !.during = IF law.iter THEN @ \cup {law.next_unique} ELSE @,
                        !.late = IF law.iter /\ law.removed THEN @ \cup {law.next_unique}
                                 ELSE @]
  /\ Idle

\* the function push returned for id
ListRemove(id) ==
  /\ law.phase = "list"
  /\ ListUser
  /\ id < law.next_unique
  /\ law' = [law EXCEPT !.dict = @ \ {id},
                        !.dirty = IF law.variant = "dirty" THEN TRUE ELSE @,
                        !.isnull = IF law.variant = "null" THEN TRUE ELSE @,
                        !.removed = @ \/ law.iter]
  /\ Idle

\* iter(f) begins: the order is filtered, or rebuilt, when it has to be
ListIter ==
  /\ law.phase = "list"
  /\ ~law.iter
  /\ law.passes < MaxPasses
  /\ LET xs == IF law.variant = "dirty"
               THEN IF law.dirty THEN SelectSeq(law.xs, LAMBDA id : id \in law.dict)
                    ELSE law.xs
               ELSE IF law.isnull THEN Rebuilt(law.dict, law.xs) ELSE law.xs
     IN law' = [law EXCEPT !.xs = xs, !.dirty = FALSE, !.isnull = FALSE,
                           !.iter = TRUE, !.len = Len(xs), !.pos = 1, !.ran = FALSE,
                           !.invoked = {}, !.removed = FALSE, !.prior = law.during,
                           !.start = law.dict, !.trace = <<>>]
  /\ Idle

\* the next element of the array: if (id in dict) f(dict[id])
ListVisit ==
  /\ law.phase = "list"
  /\ law.iter
  /\ law.pos <= law.len
  /\ law' = IF law.xs[law.pos] \in law.dict
            THEN [law EXCEPT !.pos = @ + 1, !.ran = TRUE,
                             !.invoked = @ \cup {law.xs[law.pos]},
                             !.trace = Append(@, law.xs[law.pos])]
            ELSE [law EXCEPT !.pos = @ + 1]
  /\ Idle

\* iter returns
ListIterEnd ==
  /\ law.phase = "list"
  /\ law.iter
  /\ law.pos > law.len
  /\ law' = [law EXCEPT !.iter = FALSE, !.ran = FALSE, !.passes = @ + 1]
  /\ Idle

ListNext ==
  \/ ListPush
  \/ \E id \in 0 .. (MaxIds - 1) : ListRemove(id)
  \/ ListIter
  \/ ListVisit
  \/ ListIterEnd

SpecList == ListInit /\ [][ListNext]_vars

(***************************************************************************)
(* The two revisions of ListWithRemove side by side (SpecPair): one         *)
(* registry of each revision, and every call - push, a delete function,     *)
(* iter - made on both.  A registry is the record of the variables of the   *)
(* closure; order = null is the flag isnull, with an empty order.  cur is   *)
(* the array forEach, or map, is going through, with the length it had when *)
(* the iteration began.  A step of an iteration takes each registry to the  *)
(* next element it calls, the elements that fail the test id in dict being  *)
(* passed over; the element called may push and call delete functions.      *)
(***************************************************************************)
\* ListWithRemove()
ListWithRemove ==
  [dict |-> {}, order |-> <<>>, isnull |-> FALSE, dirty |-> FALSE, next_unique |-> 0]

\* push(a)
push(v, r) ==
  [r EXCEPT !.next_unique = @ + 1,
            !.dict = @ \cup {r.next_unique},
            !.order = IF v = "null" /\ r.isnull THEN @ ELSE Append(@, r.next_unique)]

\* the function push returned for id
remove(v, r, id) ==
  IF v = "dirty"
  THEN [r EXCEPT !.dict = @ \ {id}, !.dirty = TRUE]
  ELSE [r EXCEPT !.dict = @ \ {id}, !.isnull = TRUE, !.order = <<>>]

\* the head of iter: order is filtered when dirty, rebuilt when null
iter(v, r) ==
  IF v = "dirty"
  THEN IF r.dirty
       THEN [r EXCEPT !.order = SelectSeq(@, LAMBDA id : id \in r.dict), !.dirty = FALSE]
       ELSE r
  ELSE IF r.isnull
       THEN [r EXCEPT !.order = Rebuilt(r.dict, @), !.isnull = FALSE]
       ELSE r

\* the position of the next element of xs, from pos on, that is in dict;
\* Len(xs) + 1 when there is none
NextLive(xs, pos, d) ==
  LET live == {j \in pos .. Len(xs) : xs[j] \in d}
  IN IF live = {} THEN Len(xs) + 1
     ELSE CHOOSE j \in live : \A k \in live : j <= k

PairInit ==
  /\ NewRoot(s0)
  /\ law = [phase |-> "pair",
            reg |-> [v \in Variants |-> ListWithRemove],
            cur |-> [v \in Variants |-> <<>>],
            pos |-> [v \in Variants |-> 1],
            trace |-> [v \in Variants |-> <<>>],
            iter |-> FALSE, ran |-> FALSE, passes |-> 0,
            inner |-> {}, rebuilt |-> FALSE]

\* code that may call push or a delete function
PairUser == ~law.iter \/ law.ran

\* push(a) on both
PairPush ==
  /\ law.phase = "pair"
  /\ PairUser
  /\ \A v \in Variants : law.reg[v].next_unique < MaxIds
  /\ law' = [law EXCEPT !.reg = [v \in Variants |-> push(v, law.reg[v])],
                        !.inner = IF law.iter THEN @ \cup {"push"} ELSE @]
  /\ Idle

\* the delete function of the id-th push, on both
PairRemove(id) ==
  /\ law.phase = "pair"
  /\ PairUser
  /\ \A v \in Variants : id < law.reg[v].next_unique
  /\ law' = [law EXCEPT !.reg = [v \in Variants |-> remove(v, law.reg[v], id)],
                        !.inner = IF law.iter THEN @ \cup {"remove"} ELSE @]
  /\ Idle

\* iter(f) begins on both
PairIter ==
  /\ law.phase = "pair"
  /\ ~law.iter
  /\ law.passes < MaxPasses
  /\ LET reg == [v \in Variants |-> iter(v, law.reg[v])]
     IN law' = [law EXCEPT !.reg = reg,
                           !.cur = [v \in Variants |-> reg[v].order],
                           !.pos = [v \in Variants |-> 1],
                           !.trace = [v \in Variants |-> <<>>],
                           !.iter = TRUE, !.ran = FALSE,
                           !.rebuilt = law.reg["null"].isnull]
  /\ Idle

\* each iteration goes on to the next element it calls, if it has one
PairVisit ==
  /\ law.phase = "pair"
  /\ law.iter
  /\ LET to == [v \in Variants |-> NextLive(law.cur[v], law.pos[v], law.reg[v].dict)]
     IN /\ \E v \in Variants : to[v] <= Len(law.cur[v])
        /\ law' = [law EXCEPT
                     !.pos = [v \in Variants |-> to[v] + 1],
                     !.trace = [v \in Variants |->
                                  IF to[v] <= Len(law.cur[v])
                                  THEN Append(@[v], law.cur[v][to[v]])
                                  ELSE @[v]],
                     !.ran = TRUE]
  /\ Idle

\* both iterations have no element left to call: iter returns
PairIterEnd ==
  /\ law.phase = "pair"
  /\ law.iter
  /\ \A v \in Variants :
       NextLive(law.cur[v], law.pos[v], law.reg[v].dict) > Len(law.cur[v])
  /\ law' = [law EXCEPT !.iter = FALSE, !.ran = FALSE, !.passes = @ + 1]
  /\ Idle

PairNext ==
  \/ PairPush
  \/ \E id \in 0 .. (MaxIds - 1) : PairRemove(id)
  \/ PairIter
  \/ PairVisit
  \/ PairIterEnd

SpecPair == PairInit /\ [][PairNext]_vars

(***************************************************************************)
(* The cascade of notify passes (SpecCascade): a root holding a number,     *)
(* with MaxListeners listeners subscribed through it that never             *)
(* unsubscribe.  A listener of the set always writes once every time it is  *)
(* invoked; every other listener may write, during its invocations, as many *)
(* times in all as its budget says.  The program makes top-level calls,     *)
(* set(v) or a transaction whose body makes up to MaxOps sets, one after    *)
(* the other.  law counts, for the call in progress, the passes notify has  *)
(* started (up to PassCap) and those of them in which a listener wrote.     *)
(* The call in progress always takes its next step (weak fairness): the     *)
(* code runs to completion.                                                 *)
(***************************************************************************)
MaxWrites == 2

\* more passes than the budgets of all the listeners can cause
PassCap == MaxListeners * MaxWrites + 2

UpTo(n) == IF n < PassCap THEN n + 1 ELSE PassCap

CascadeInit ==
  /\ s = 0
  /\ depth = 0
  /\ pending = FALSE
  /\ dict = [i \in Ids |-> "store"]
  /\ order = [i \in 1 .. MaxListeners |-> i - 1]
  /\ next_unique = MaxListeners
  /\ dirty = FALSE
  /\ stack = <<>>
  /\ call = NoCall
  /\ calls = [i \in Ids |-> 0]
  /\ seen = [i \in Ids |-> Undefined]
  /\ fresh = FALSE
  /\ offed = {}
  /\ result = NoResult
  /\ \E al \in SUBSET Ids : \E b \in [Ids -> 0 .. MaxWrites] :
       /\ \A i \in al : b[i] = 0
       /\ law = [phase |-> "cascade", always |-> al, budget |-> b,
                 op |-> "none", nsets |-> 0, passes |-> 0, wp |-> 0, w |-> FALSE]

\* what the listeners and the registry hold is left alone
Subscribed == UNCHANGED <<dict, next_unique, call, calls, seen, offed, result>>

\* the counts of law c after notify() was called at depth d with pending p
Passed(c, d, p) ==
  IF NotifyFires(d, p) THEN [c EXCEPT !.passes = UpTo(@), !.w = FALSE] ELSE c

\* the program calls store.set(v)
TopSet(v) ==
  /\ law.phase = "cascade"
  /\ stack = <<>>
  /\ law.op = "none"
  /\ s' = v
  /\ Notify(<<>>, depth, Pending(v), TRUE)
  /\ law' = Passed([law EXCEPT !.op = "set", !.nsets = 1], depth, Pending(v))
  /\ Subscribed

\* the program calls store.transaction(m): transact's depth++, then m runs
TopTransaction ==
  /\ law.phase = "cascade"
  /\ stack = <<>>
  /\ law.op = "none"
  /\ depth' = Entered(depth)
  /\ stack' = <<[kind |-> "body"]>>
  /\ law' = [law EXCEPT !.op = "transaction"]
  /\ UNCHANGED <<s, pending, order, dirty, fresh>>
  /\ Subscribed

\* the body m calls store.set(v)
BodySet(v) ==
  /\ law.phase = "cascade"
  /\ stack # <<>>
  /\ Top.kind = "body"
  /\ law.nsets < MaxOps
  /\ s' = v
  /\ Notify(stack, depth, Pending(v), TRUE)
  /\ law' = Passed([law EXCEPT !.nsets = @ + 1], depth, Pending(v))
  /\ Subscribed

\* the body m returns: transact's depth-- and notify()
CascadeBodyEnd ==
  /\ law.phase = "cascade"
  /\ stack # <<>>
  /\ Top.kind = "body"
  /\ Notify(Pop, Left(depth), pending, fresh)
  /\ law' = Passed(law, Left(depth), pending)
  /\ UNCHANGED s
  /\ Subscribed

\* order.forEach: the next listener is invoked
Visit ==
  /\ law.phase = "cascade"
  /\ stack # <<>>
  /\ Top.kind = "iter"
  /\ Top.pos <= Len(Top.order)
  /\ stack' = IF Live(Top.order[Top.pos])
              THEN Append(Append(Pop, [Top EXCEPT !.pos = @ + 1]),
                          [kind |-> "cb", id |-> Top.order[Top.pos], wrote |-> FALSE])
              ELSE Append(Pop, [Top EXCEPT !.pos = @ + 1])
  /\ UNCHANGED <<s, depth, pending, order, dirty, fresh, law>>
  /\ Subscribed

\* the listener that is running calls store.set(v)
ListenerSet(v) ==
  /\ law.phase = "cascade"
  /\ stack # <<>>
  /\ Top.kind = "cb"
  /\ IF Top.id \in law.always THEN ~Top.wrote ELSE law.budget[Top.id] > 0
  /\ s' = v
  /\ Notify(Append(Pop, [Top EXCEPT !.wrote = TRUE]), depth, Pending(v), TRUE)
  /\ law' = Passed([law EXCEPT !.budget[Top.id] = IF Top.id \in law.always THEN @ ELSE @ - 1,
                               !.wp = IF law.w THEN @ ELSE UpTo(@),
                               !.w = TRUE],
                   depth, Pending(v))
  /\ Subscribed

\* the listener that is running returns
ListenerEnd ==
  /\ law.phase = "cascade"
  /\ stack # <<>>
  /\ Top.kind = "cb"
  /\ Top.id \in law.always => Top.wrote
  /\ stack' = Pop
  /\ UNCHANGED <<s, depth, pending, order, dirty, fresh, law>>
  /\ Subscribed

\* the pass is over: transact's depth-- and notify()
CascadeIterEnd ==
  /\ law.phase = "cascade"
  /\ stack # <<>>
  /\ Top.kind = "iter"
  /\ Top.pos > Len(Top.order)
  /\ Notify(Pop, Left(depth), pending, fresh)
  /\ law' = Passed(law, Left(depth), pending)
  /\ UNCHANGED s
  /\ Subscribed

\* the top-level call has returned to the program
CascadeReturned ==
  /\ law.phase = "cascade"
  /\ stack = <<>>
  /\ law.op # "none"
  /\ law' = [law EXCEPT !.op = "none", !.nsets = 0, !.passes = 0, !.wp = 0, !.w = FALSE]
  /\ UNCHANGED <<s, depth, pending, order, dirty, stack, fresh>>
  /\ Subscribed

\* the steps of the call in progress
CascadeRun ==
  \/ \E v \in Val : BodySet(v)
  \/ CascadeBodyEnd
  \/ Visit
  \/ \E v \in Val : ListenerSet(v)
  \/ ListenerEnd
  \/ CascadeIterEnd

CascadeNext ==
  \/ \E v \in Val : TopSet(v)
  \/ TopTransaction
  \/ CascadeRun
  \/ CascadeReturned

SpecCascade == CascadeInit /\ [][CascadeNext]_vars /\ WF_vars(CascadeRun)

(***************************************************************************)
(* The Requests module (SpecReq): a root store holding the queue, an array  *)
(* of requests, with two listeners: the one process_requests subscribes     *)
(* with ondiff, and one subscribed with on that may make requests when it   *)
(* is invoked; either may be the first.  Arrays are cells of a heap and the *)
(* root holds a reference, since ondiff compares references.  Requests are  *)
(* numbered in the order in which they are made.  The program makes         *)
(* requests at top level and in transactions; the listener and process may  *)
(* make requests too.  law also keeps the log of the requests handed to     *)
(* process, the number of passes started, and for every request the pass    *)
(* during which process made it (0: not made by process) and the pass       *)
(* during which it was handed to process.                                   *)
(***************************************************************************)
MaxReqs == 3

ReqInit ==
  /\ s = 1
  /\ depth = 0
  /\ pending = FALSE
  /\ dict = [i \in {0, 1} |-> "store"]
  /\ order = <<0, 1>>
  /\ next_unique = 2
  /\ dirty = FALSE
  /\ stack = <<>>
  /\ call = NoCall
  /\ calls = [i \in Ids |-> 0]
  /\ seen = [i \in Ids |-> Undefined]
  /\ fresh = FALSE
  /\ offed = {}
  /\ result = NoResult
  /\ \E p \in {0, 1} :
       law = [phase |-> "req", heap |-> << <<>> >>, proc |-> p, old_value |-> 1,
              op |-> "none", n |-> 0, log |-> <<>>, pass |-> 0,
              by |-> <<>>, at |-> <<>>]

\* the pass count of law after notify() was called at depth d with pending p
ReqPassed(c, d, p) == IF NotifyFires(d, p) THEN [c EXCEPT !.pass = @ + 1] ELSE c

\* code that may call request is running: the program between two calls, a
\* transaction body, the plain listener, or process
ReqUser ==
  IF stack = <<>> THEN law.op = "none" ELSE Top.kind \in {"body", "cb", "process"}

\* request(store, r), that is Store.arr(store, 'push')(r):
\* xs = store.get().slice(); xs.push(r); store.set(xs)
Request ==
  /\ law.phase = "req"
  /\ ReqUser
  /\ law.n < MaxReqs
  /\ LET c == Slice(law.heap, s)
         xs == Method("push", c.heap[c.ref], <<law.n>>).xs
         made == IF stack # <<>> /\ Top.kind = "process" THEN law.pass ELSE 0
     IN /\ s' = c.ref
        /\ Notify(stack, depth, Pending(c.ref), TRUE)
        /\ law' = ReqPassed([law EXCEPT !.heap = [c.heap EXCEPT ![c.ref] = xs],
                                        !.n = @ + 1,
                                        !.by = Append(@, made),
                                        !.op = IF stack = <<>> THEN "request" ELSE @],
                            depth, Pending(c.ref))
  /\ Subscribed

\* the program calls store.transaction(m): transact's depth++, then m runs
ReqTransaction ==
  /\ law.phase = "req"
  /\ stack = <<>>
  /\ law.op = "none"
  /\ law.n < MaxReqs
  /\ depth' = Entered(depth)
  /\ stack' = <<[kind |-> "body"]>>
  /\ law' = [law EXCEPT !.op = "transaction"]
  /\ UNCHANGED <<s, pending, order, dirty, fresh>>
  /\ Subscribed

\* the body m returns: transact's depth-- and notify()
ReqBodyEnd ==
  /\ law.phase = "req"
  /\ stack # <<>>
  /\ Top.kind = "body"
  /\ Notify(Pop, Left(depth), pending, fresh)
  /\ law' = ReqPassed(law, Left(depth), pending)
  /\ UNCHANGED s
  /\ Subscribed

\* order.forEach: the next listener is invoked.  The plain listener starts to
\* run.  The wrapper of ondiff reads new_value = store.get() and, when it is
\* not old_value, calls the function of process_requests, which, when the
\* array is not empty, enters the transaction and there calls store.set([]);
\* after that function has returned, old_value = new_value.
ReqVisit ==
  /\ law.phase = "req"
  /\ stack # <<>>
  /\ Top.kind = "iter"
  /\ Top.pos <= Len(Top.order)
  /\ LET id == Top.order[Top.pos]
         rest == Append(Pop, [Top EXCEPT !.pos = @ + 1])
         new_value == s
     IN IF ~Live(id)
        THEN /\ stack' = rest
             /\ UNCHANGED <<s, depth, pending, order, dirty, fresh, law>>
        ELSE IF id # law.proc
        THEN /\ stack' = Append(rest, [kind |-> "cb", id |-> id])
             /\ UNCHANGED <<s, depth, pending, order, dirty, fresh, law>>
        ELSE IF ~Differs(new_value, law.old_value)
        THEN /\ stack' = rest
             /\ UNCHANGED <<s, depth, pending, order, dirty, fresh, law>>
        ELSE IF Len(law.heap[new_value]) = 0
        THEN /\ stack' = rest
             /\ law' = [law EXCEPT !.old_value = new_value]
             /\ UNCHANGED <<s, depth, pending, order, dirty, fresh>>
        ELSE /\ s' = Len(law.heap) + 1
             /\ Notify(Append(rest, [kind |-> "batch", requests |-> new_value,
                                     len |-> Len(law.heap[new_value]), n |-> 1]),
                       Entered(depth), Pending(Len(law.heap) + 1), TRUE)
             /\ law' = ReqPassed([law EXCEPT !.heap = Append(@, <<>>)],
                                 Entered(depth), Pending(Len(law.heap) + 1))
  /\ Subscribed

\* requests.forEach(process): process is called with the next request
Process ==
  /\ law.phase = "req"
  /\ stack # <<>>
  /\ Top.kind = "batch"
  /\ Top.n <= Top.len
  /\ stack' = Append(Append(Pop, [Top EXCEPT !.n = @ + 1]),
                     [kind |-> "process", request |-> law.heap[Top.requests][Top.n]])
  /\ law' = [law EXCEPT !.log = Append(@, law.heap[Top.requests][Top.n]),
                        !.at = Append(@, law.pass)]
  /\ UNCHANGED <<s, depth, pending, order, dirty, fresh>>
  /\ Subscribed

\* process, or the plain listener, returns
ReqEnd ==
  /\ law.phase = "req"
  /\ stack # <<>>
  /\ Top.kind \in {"process", "cb"}
  /\ stack' = Pop
  /\ UNCHANGED <<s, depth, pending, order, dirty, fresh, law>>
  /\ Subscribed

\* forEach is over and the body of the transaction returns: transact's
\* depth-- and notify(); then, in ondiff's wrapper, old_value = new_value
BatchEnd ==
  /\ law.phase = "req"
  /\ stack # <<>>
  /\ Top.kind = "batch"
  /\ Top.n > Top.len
  /\ Notify(Pop, Left(depth), pending, fresh)
  /\ law' = ReqPassed([law EXCEPT !.old_value = Top.requests], Left(depth), pending)
  /\ UNCHANGED s
  /\ Subscribed

\* the pass is over: transact's depth-- and notify()
ReqIterEnd ==
  /\ law.phase = "req"
  /\ stack # <<>>
  /\ Top.kind = "iter"
  /\ Top.pos > Len(Top.order)
  /\ Notify(Pop, Left(depth), pending, fresh)
  /\ law' = ReqPassed(law, Left(depth), pending)
  /\ UNCHANGED s
  /\ Subscribed

\* the top-level call has returned to the program
ReqReturned ==
  /\ law.phase = "req"
  /\ stack = <<>>
  /\ law.op # "none"
  /\ law' = [law EXCEPT !.op = "none"]
  /\ UNCHANGED <<s, depth, pending, order, dirty, stack, fresh>>
  /\ Subscribed

ReqNext ==
  \/ Request
  \/ ReqTransaction
  \/ ReqBodyEnd
  \/ ReqVisit
  \/ Process
  \/ ReqEnd
  \/ BatchEnd
  \/ ReqIterEnd
  \/ ReqReturned

SpecReq == ReqInit /\ [][ReqNext]_vars

(***************************************************************************)
(* A store zoomed twice and the store zoomed once through the composed      *)
(* lens (SpecZoom).  The program builds a root holding root0 with one       *)
(* listener, calls two.set(u) on the store zoomed twice and notes the root  *)
(* and the number of times the listener was invoked; it does the same on a  *)
(* new root holding root0 with one.set(u), the store zoomed through         *)
(* Lens.seq.  The last pair is the one of the test 'seq', on a root         *)
(* holding a number.                                                        *)
(***************************************************************************)
ZoomPairs ==
  {[two |-> "r_c_e", one |-> "z_c_e"],
   [two |-> "b1", one |-> "z_b1"],
   [two |-> "c_d0", one |-> "z_c_d0"],
   [two |-> "bsr0", one |-> "z_bsr0"],
   [two |-> "dbl_bump", one |-> "db"]}

ZoomRoots(p) == IF p.one = "db" THEN {1, 2} ELSE LawRoots
ZoomVals(p) == IF p.one = "db" THEN {3, 5} ELSE Val

ZoomInit ==
  \E p \in ZoomPairs : \E root0 \in ZoomRoots(p) : \E u \in ZoomVals(p) :
    /\ NewRoot(root0)
    /\ law = [phase |-> "zoom", pc |-> "set_two", two |-> p.two, one |-> p.one,
              u |-> u, root0 |-> root0,
              root_two |-> root0, n_two |-> 0, threw_two |-> FALSE,
              root_one |-> root0, n_one |-> 0, threw_one |-> FALSE]

\* the program calls two.set(u), or one.set(u)
ZoomSet ==
  /\ law.phase = "zoom"
  /\ stack = <<>>
  /\ law.pc \in {"set_two", "set_one"}
  /\ SetCall(IF law.pc = "set_two" THEN law.two ELSE law.one, law.u)
  /\ law' = [law EXCEPT !.pc = IF @ = "set_two" THEN "note_two" ELSE "note_one"]

\* the set has returned, or raised: the program notes the root and the
\* number of invocations, and after the first set goes on with a new root
ZoomNote ==
  /\ law.phase = "zoom"
  /\ stack = <<>>
  /\ law.pc \in {"note_two", "note_one"}
  /\ IF law.pc = "note_two"
     THEN /\ law' = [law EXCEPT !.pc = "set_one", !.root_two = s, !.n_two = calls[0],
                                !.threw_two = call.thrown]
          /\ s' = law.root0
          /\ depth' = 0
          /\ pending' = FALSE
          /\ dict' = [i \in {0} |-> "store"]
          /\ order' = <<0>>
          /\ next_unique' = 1
          /\ dirty' = FALSE
          /\ call' = NoCall
          /\ calls' = [i \in Ids |-> 0]
          /\ seen' = [i \in Ids |-> Undefined]
          /\ fresh' = FALSE
          /\ offed' = {}
          /\ result' = NoResult
          /\ UNCHANGED stack
     ELSE /\ law' = [law EXCEPT !.pc = "done", !.root_one = s, !.n_one = calls[0],
                                !.threw_one = call.thrown]
          /\ UNCHANGED <<s, depth, pending, dict, order, next_unique, dirty, stack, call,
                         calls, seen, offed, fresh, result>>

ZoomNext ==
  \/ ZoomSet
  \/ ZoomNote
  \/ IterStep
  \/ CallbackEnd
  \/ IterEnd

SpecZoom == ZoomInit /\ [][ZoomNext]_vars

(***************************************************************************)
(* The lens laws on the lenses of the Lens module (SpecLens): a lens, a     *)
(* source of its type and two values are drawn, and the three laws are     *)
(* computed with the lens's own getter and setter.                         *)
(***************************************************************************)
LawLenses == {"at_a", "pick_ab", "omit_a", "key_d", "index_0", "index_1",
              "c_key_d", "b_index_1", "c_e"}

\* the lenses of Lens.def, over a value or undefined
DefLenses == {"def_0", "def_1"}

\* relabel lenses over disjoint parts and over the same part twice
RelabelLenses == {"x_a_y_b", "x_a_y_a"}

\* the total index lens at positions inside and beyond the arrays, and the
\* arrays it is applied to: none ends with undefined
TotalLenses == {"total_0", "total_1", "total_2", "total_4"}
TotalArrs == Arrs \cup {<<0, 1, 1>>, <<0, Undefined, 1>>}

\* Lens.along on one field with one field kept, over structs with and
\* without a third field
AlongLenses == {"along_c_e_a"}

LensOf(name) ==
  CASE name = "at_a" -> at("a")
    [] name = "pick_ab" -> pick(<<"a", "b">>)
    [] name = "omit_a" -> omit({"a"})
    [] name = "key_d" -> key("d")
    [] name = "index_0" -> index(0)
    [] name = "index_1" -> index(1)
    [] name = "c_key_d" -> seq(at("c"), key("d"))
    [] name = "b_index_1" -> seq(at("b"), index(1))
    [] name = "c_e" -> seq(at("c"), at("e"))
    [] name = "def_0" -> def(0)
    [] name = "def_1" -> def(1)
    [] name = "x_a_y_b" -> relabel(<<"x", "y">>, [x |-> at("a"), y |-> at("b")])
    [] name = "x_a_y_a" -> relabel(<<"x", "y">>, [x |-> at("a"), y |-> at("a")])
    [] name = "total_0" -> index_total(0)
    [] name = "total_1" -> index_total(1)
    [] name = "total_2" -> index_total(2)
    [] name = "total_4" -> index_total(4)
    [] name = "along_c_e_a" -> Lens_along("c", at("e"), <<"a">>)

\* records whose keys are all present, and records with the optional key d
Recs == [a : Val, b : Val]
OptRecs == [e : Val] \cup [d : Val, e : Val]

\* the sources of a lens's source type
LensSources(name) ==
  CASE name \in {"at_a", "pick_ab", "omit_a"} \cup RelabelLenses -> Recs
    [] name = "key_d" -> OptRecs
    [] name = "index_0" -> {xs \in Arrs : Len(xs) >= 1}
    [] name = "index_1" -> {xs \in Arrs : Len(xs) >= 2}
    [] name \in {"c_key_d", "c_e"} -> {[a |-> 0, b |-> <<0>>, c |-> c] : c \in OptRecs}
    [] name = "b_index_1" ->
         {[a |-> 0, b |-> xs, c |-> [e |-> 0]] : xs \in {ys \in Arrs : Len(ys) >= 2}}
    [] name \in DefLenses -> Val \cup {Undefined}
    [] name \in TotalLenses -> TotalArrs
    [] name \in AlongLenses ->
         {[a |-> 0, c |-> [d |-> 0, e |-> e]] : e \in Val}
           \cup {[a |-> 1, b |-> b, c |-> [d |-> 1, e |-> 0]] : b \in Val}

\* the values of a lens's target type
LensTargets(name) ==
  CASE name = "pick_ab" -> Recs
    [] name = "omit_a" -> [b : Val]
    [] name \in RelabelLenses -> [x : Val, y : Val]
    [] name \in {"key_d", "c_key_d"} \cup TotalLenses -> Val \cup {Undefined}
    [] name \in AlongLenses -> [a : Val, c : Val]
    [] OTHER -> Val

LensInit ==
  /\ NewRoot(s0)
  /\ \E name \in LawLenses \cup DefLenses \cup RelabelLenses \cup TotalLenses \cup AlongLenses :
       \E src \in LensSources(name) :
         \E a \in LensTargets(name) :
           \E b \in LensTargets(name) :
             law = [phase |-> "lens", pc |-> "start", lens |-> name, s |-> src,
                    a |-> a, b |-> b, get_set |-> Undefined, set_get |-> Undefined,
                    set_set |-> Undefined, set_b |-> Undefined]

\* get(set(s, a)), set(s, get(s)), set(set(s, a), b) and set(s, b)
LensLaws ==
  /\ law.phase = "lens"
  /\ law.pc = "start"
  /\ LET lens == LensOf(law.lens) IN
       law' = [law EXCEPT !.pc = "done",
                          !.get_set = LensGet(lens, LensSet(lens, law.s, law.a)),
                          !.set_get = LensSet(lens, law.s, LensGet(lens, law.s)),
                          !.set_set = LensSet(lens, LensSet(lens, law.s, law.a), law.b),
                          !.set_b = LensSet(lens, law.s, law.b)]
  /\ UNCHANGED <<s, depth, pending, dict, order, next_unique, dirty, stack, call, calls,
                 seen, offed, fresh, result>>

SpecLens == LensInit /\ [][LensLaws]_vars

(***************************************************************************)
(* Properties of the transaction engine (Spec).                            *)
(***************************************************************************)
\* the top-level call is over and has not yet returned to the program
Done == stack = <<>> /\ call.op # "none"

\* the listeners subscribed when the top-level call started and still subscribed
Kept == call.live \cap DOMAIN dict

\* the body of the top-level transaction is still running
InTopBody == stack # <<>> /\ stack[1].kind = "body"

C2_SetNotifiesOnce ==
  (Done /\ call.op = "set" /\ call.d0 = 0 /\ ~call.thrown /\ ~call.lw)
    => \A id \in Kept : calls[id] = 1

\* a set through a derived store that wrote the value the root already had
C2_Witness ==
  /\ Done /\ call.op = "set" /\ call.st = "b1" /\ call.d0 = 0
  /\ ~call.thrown /\ ~call.lw /\ call.wrote /\ ~call.changed
  /\ Cardinality(Kept) = 2
  /\ \A id \in Kept : calls[id] = 1

\* C3: a notify pass never runs above an open transaction: no listener and no
\* pass is on the stack above the body of a transaction or the writes of a
\* relabel store, however deep the transactions nest; a listener runs only
\* directly inside a pass.
C3_OnlyOutermostNotifies ==
  \A j \in DOMAIN stack :
    /\ stack[j].kind = "iter" =>
         \A i \in 1 .. (j - 1) : stack[i].kind \notin {"body", "multi"}
    /\ stack[j].kind = "cb" => j > 1 /\ stack[j - 1].kind = "iter"

\* an inner transaction that set has completed inside an outer one, with
\* listeners subscribed: nothing is notified
C3_Witness ==
  /\ Len(stack) = 2 /\ stack[1].kind = "body" /\ stack[2].kind = "ret"
  /\ call.d0 = 0 /\ pending /\ depth = 1
  /\ DOMAIN dict # {}
  /\ \A id \in Ids : calls[id] = 0

\* C4: a top-level call that set nothing invokes no listener, and every pass
\* starts after at least one set made since the previous pass started.
C4_NoSetNoPass ==
  /\ ~call.wrote => \A id \in Ids : calls[id] = 0
  /\ \A j \in DOMAIN stack : stack[j].kind = "iter" => stack[j].fresh

\* a transaction holding a nested transaction and no set is over, at depth 0,
\* with listeners subscribed
C4_Witness ==
  /\ Done /\ call.op = "transaction" /\ call.d0 = 0 /\ call.ops >= 1
  /\ ~call.wrote /\ ~call.thrown /\ depth = 0
  /\ DOMAIN dict # {}
  /\ \A id \in Ids : calls[id] = 0

\* C5: the stores derived from the root share its depth, pending flag and
\* registry: while a transaction is open a set through a derived store invokes
\* nothing; a pass invokes every listener, whatever store it was subscribed
\* through and whatever store was written; and a listener receives the
\* projection of the current value through its own store.
C5_SharedEngine ==
  /\ (stack # <<>> /\ Top.kind = "body" /\ Top.st # "none")
       => pending /\ \A i \in DOMAIN stack : stack[i].kind # "iter" \/ InListener
  /\ (stack # <<>> /\ Top.kind = "iter" /\ Top.pos > Len(Top.order) /\ ~call.lw)
       => \A id \in DOMAIN dict : id \in Range(Top.order) => calls[id] = 1
  /\ (stack # <<>> /\ Top.kind = "cb" /\ ~call.lw /\ Top.id \in DOMAIN dict)
       => seen[Top.id] = StoreGet(dict[Top.id], s)

\* a set through the index store b1 ends its pass: the listener subscribed
\* through r_a, whose focus was not written, and the one subscribed through the
\* root were both invoked
C5_Witness ==
  /\ stack # <<>> /\ Top.kind = "iter" /\ Top.pos > Len(Top.order)
  /\ call.op = "set" /\ call.st = "b1" /\ ~call.lw
  /\ \E i, j \in DOMAIN dict :
       /\ dict[i] = "r_a" /\ dict[j] = "store"
       /\ calls[i] = 1 /\ calls[j] = 1
       /\ seen[i] = s.a /\ seen[j] = s

\* C6: transaction(body) returns what its body returned, and the body reads back
\* the value it has just set: st.transaction(() => st.set(v).get()) is v, also
\* when listeners wrote to the store before the call returned.
C6_TransactionResult ==
  result.st # "none" => result.a = result.v

\* the transaction returned the value its body set although a listener has
\* written another one since
C6_Witness ==
  /\ result.st # "none" /\ result.a = result.v
  /\ call.lw /\ stack = <<>>
  /\ StoreGet(result.st, s) # result.a

\* C7: no step invokes a listener whose unsubscribe function has been called,
\* in the call that unsubscribed it or in any later one, and a set at depth 0
\* still invokes every listener that stays subscribed.
C7_Unsubscribed ==
  /\ [][\A id \in offed : calls'[id] <= calls[id]]_vars
  /\ []((Done /\ call.op = "set" /\ call.d0 = 0 /\ ~call.thrown)
          => \A id \in Kept : calls[id] >= 1)

\* a set is over: the unsubscribed listener was left alone, the other one ran
C7_Witness ==
  /\ Done /\ call.op = "set" /\ call.d0 = 0 /\ ~call.thrown
  /\ call.gone # {} /\ Kept # {}
  /\ \A id \in call.gone : calls[id] = 0
  /\ \A id \in Kept : calls[id] = 1

(***************************************************************************)
(* Properties of the store laws (SpecLaws).                                *)
(***************************************************************************)
\* C8: law 1, set-get: through the root and through every store built within
\* the lenses' preconditions whose focus exists (an index in bounds),
\* s.set(a).get() returns a, and .set(b).get() after it returns b.
C8_SetGet ==
  (law.phase = "on" /\ law.st \in Lawful /\ StoreGetOk(law.st, law.root0))
    => /\ 1 \notin law.threw
       /\ "get_a" \in law.got => law.get_a = law.a
       /\ "get_ab" \in law.got => law.get_ab = law.b

\* both gets of run 1 returned what was set, through the relabel store over the
\* disjoint parts a and c.e
C8_Witness ==
  /\ law.phase = "on" /\ law.st = "r_a_and_c_e"
  /\ {"get_a", "get_ab"} \subseteq law.got
  /\ law.a # law.b
  /\ law.get_a = law.a /\ law.get_ab = law.b

\* C9 as stated: law 2, get-set, through the root and every derived store:
\* s.set(s.get()).get() returns what s.get() returned before the set.
C9_AsStated ==
  (law.phase = "on" /\ "get_00" \in law.got) => law.get_00 = law.get_0

\* C9, amended: the same through the root and every store built within the
\* lenses' preconditions (a relabel over disjoint parts, a valid iso, an index
\* in bounds); there the set does not throw either.
C9_GetSet ==
  (law.phase = "on" /\ law.st \in Lawful /\ "get_0" \in law.got)
    => /\ 3 \notin law.threw
       /\ "get_00" \in law.got => law.get_00 = law.get_0

\* run 3 is over through the default-value store c_d0: the set changed the root
\* (it removed the key d) and the get returns what it returned before
C9_Witness ==
  /\ law.phase = "on" /\ law.st = "c_d0" /\ law.pc = "done"
  /\ "get_00" \in law.got
  /\ law.get_00 = law.get_0
  /\ s # law.root0

C11_DepthZeroWhenUnwound ==
  stack = <<>> => depth = 0

\* the stores of the model zoomed through the partial index lens
IndexStores == {st \in Stores : Desc(st).kind = "via" /\ Desc(st).lens.kind = "index"}

\* the index of store st lies outside the array its parent holds in root
OutOfBounds(st, root) ==
  LET i == Desc(st).lens.i
      xs == StoreGet(Desc(st).parent, root)
  IN i < 0 \/ i >= Len(xs)

\* C12: through a store zoomed by the partial index lens, a set raises exactly
\* when the index is below 0 or at least the array's length, and then the root
\* keeps its value and no listener is invoked; a get raises in the same cases.
C12_OutOfBounds ==
  (law.phase = "on" /\ law.st \in IndexStores)
    => /\ (stack = <<>> /\ call.op = "set")
            => /\ call.thrown <=> OutOfBounds(law.st, s)
               /\ call.thrown => /\ s = law.root0
                                 /\ ~call.wrote
                                 /\ \A id \in Ids : calls[id] = 0
       /\ law.pc = "done" => ((3 \in law.threw) <=> OutOfBounds(law.st, law.root0))
       /\ "get_0" \in law.got => ~OutOfBounds(law.st, law.root0)

\* a set through index -1 has raised: the root holds what it held and the
\* subscribed listener was not invoked
C12_Witness ==
  /\ law.phase = "on" /\ law.st = "b_neg"
  /\ stack = <<>> /\ call.op = "set" /\ call.thrown
  /\ s = law.root0
  /\ DOMAIN dict # {}
  /\ \A id \in Ids : calls[id] = 0

\* C13: one set through a relabel store or a merge store, or one update, made
\* at depth 0, invokes no listener before its forEach is over and then invokes
\* each subscribed listener exactly once, however many fields it wrote.
C13_OnePassForAllFields ==
  law.phase = "fields" =>
    /\ (stack # <<>> /\ stack[1].kind = "multi" /\ call.d0 = 0)
         => \A id \in Ids : calls[id] = 0
    /\ (Done /\ call.d0 = 0 /\ ~call.thrown
          /\ (call.op = "update" \/ call.st \in {"other", "r_a_and_c_e"}))
         => \A id \in Kept : calls[id] = 1

\* an update of three fields is over: the listener was invoked once
C13_Witness ==
  /\ law.phase = "fields" /\ Done /\ call.op = "update" /\ call.d0 = 0
  /\ Len(Keys(law.arg)) = 3
  /\ \A k \in DOMAIN law.arg : s[k] = law.arg[k] /\ law.pre[k] # law.arg[k]
  /\ Kept # {}
  /\ \A id \in Kept : calls[id] = 1

\* the path of keys a chain store addresses
Path(st) ==
  CASE st = "r_a" -> <<"a">>
    [] st = "r_c_e" -> <<"c", "e">>
    [] st = "r_c_d" -> <<"c", "d">>

\* C14: a set through a chain of at writes the addressed path and nothing else:
\* every other field of the root and of the object on the path keeps its value,
\* and no object that existed before is changed - the value an earlier get
\* returned is still the value the root was built with.
C14_OnlyThePath ==
  law.phase = "heap" =>
    /\ Deref(law.heap, law.root) = s
    /\ SubSeq(law.heap, 1, 2) = HeapOf(law.root0)
    /\ Deref(law.heap, law.held) = law.root0
    /\ (call.op = "set") =>
         LET path == Path(call.st) IN
           /\ \A k \in DOMAIN law.pre : k # path[1] => (k \in DOMAIN s /\ s[k] = law.pre[k])
           /\ DOMAIN s = DOMAIN law.pre
           /\ IF Len(path) = 1 THEN s[path[1]] = law.arg
              ELSE /\ \A k \in DOMAIN law.pre.c :
                        k # path[2] => (k \in DOMAIN s.c /\ s.c[k] = law.pre.c[k])
                   /\ DOMAIN s.c = (DOMAIN law.pre.c) \cup {path[2]}
                   /\ s.c[path[2]] = law.arg

\* a set through store.at('c').at('e') has changed e: the root holds new
\* objects, and the root obtained before still reads as it did
C14_Witness ==
  /\ law.phase = "heap" /\ Done /\ call.st = "r_c_e"
  /\ s.c.e # law.root0.c.e
  /\ law.root # law.held
  /\ law.heap[law.root].c # law.heap[law.held].c
  /\ Deref(law.heap, law.held) = law.root0
  /\ s.a = law.root0.a /\ s.b = law.root0.b

\* C15: through the key store c_d, set(undefined) removes the key d and set(v)
\* adds or overwrites it, every other key of the record and of the root keeping
\* its value, and get on a record without d returns undefined; through c_d0,
\* the same store behind def(0), set(0) removes the key and get on a record
\* without d returns 0.
C15_KeyAndDef ==
  (law.phase = "on" /\ law.st \in {"c_d", "c_d0"})
    => /\ law.pc = "get_a" =>
            LET removes == law.a = (IF law.st = "c_d" THEN Undefined ELSE 0) IN
              /\ s.a = law.root0.a /\ s.b = law.root0.b
              /\ \A k \in DOMAIN law.root0.c :
                   k # "d" => (k \in DOMAIN s.c /\ s.c[k] = law.root0.c[k])
              /\ IF removes
                 THEN DOMAIN s.c = (DOMAIN law.root0.c) \ {"d"}
                 ELSE /\ DOMAIN s.c = (DOMAIN law.root0.c) \cup {"d"}
                      /\ s.c.d = law.a
       /\ "get_0" \in law.got =>
            law.get_0 = IF "d" \in DOMAIN law.root0.c THEN law.root0.c.d
                        ELSE IF law.st = "c_d" THEN Undefined ELSE 0

\* set(0) through c_d0 has removed the key d the root was built with
C15_Witness ==
  /\ law.phase = "on" /\ law.st = "c_d0" /\ law.pc = "get_a"
  /\ law.a = 0
  /\ "d" \in DOMAIN law.root0.c
  /\ "d" \notin DOMAIN s.c
  /\ s.c.e = law.root0.c.e

\* C16: every lens built by at, key, pick, omit, index within bounds and seq
\* of such lenses satisfies get(set(s, t)) = t, set(s, get(s)) = s and
\* set(set(s, a), b) = set(s, b), for every source of the lens's type and all
\* values.
C16_LensLaws ==
  (law.phase = "lens" /\ law.pc = "done" /\ law.lens \in LawLenses)
    => /\ law.get_set = law.a
       /\ law.set_get = law.s
       /\ law.set_set = law.set_b

C16_Witness ==
  /\ law.phase = "lens" /\ law.pc = "done" /\ law.lens = "c_key_d"
  /\ "d" \in DOMAIN law.s.c
  /\ law.a = Undefined /\ law.b = 1
  /\ law.set_set.c.d = 1

\* the default value of a def lens
Missing == IF law.lens = "def_0" THEN 0 ELSE 1

C18_RelabelFold ==
  (law.phase = "lens" /\ law.pc = "done")
    => /\ law.lens = "x_a_y_b" => law.set_b = [a |-> law.b.x, b |-> law.b.y]
       /\ law.lens = "x_a_y_a" => law.set_b = [a |-> law.b.y, b |-> law.s.b]

C18_Witness ==
  /\ law.phase = "lens" /\ law.pc = "done" /\ law.lens = "x_a_y_b"
  /\ law.s = [a |-> 0, b |-> 0]
  /\ law.b = [x |-> 1, y |-> 1]
  /\ law.set_b = [a |-> 1, b |-> 1]

\* C19 as stated: building a relabel store or a record store over no store
\* raises a failure at construction.
C19_AsStated ==
  (law.phase = "fields" /\ law.ctor # "none" /\ law.made.kind # "threw")
    => Len(law.made.keys) > 0

\* C19: building a record store over no store raises a failure at
\* construction; building a relabel store over no store raises nothing and
\* returns a store.
C19_EmptyRecordRaises ==
  (law.phase = "fields" /\ law.ctor # "none")
    => /\ law.ctor = "record" =>
            IF law.made.kind = "threw" THEN law.made.message = "Empty record"
            ELSE Len(law.made.keys) > 0
       /\ law.ctor = "relabel" => law.made.kind = "relabel"

C19_Witness ==
  /\ law.phase = "fields" /\ law.ctor = "record"
  /\ law.made.kind = "threw"

\* C20: for other = small.merge(store.at('c')), other.get() is the shallow
\* union of small.get() and store.at('c').get(), the second store's fields
\* taking precedence where both have the key (over = store.merge(a_is_e)); and
\* other.set(t) writes a key k of t through the second store exactly when k was
\* one of its keys when merge was called, and through small otherwise,
\* whatever keys the second store has by the time of the write.
C20_MergeOwnership ==
  law.phase = "fields"
    => /\ StoreGet("other", s) = [k \in {"a"} \cup DOMAIN s.c |->
                                    IF k \in DOMAIN s.c THEN s.c[k] ELSE s.a]
       /\ StoreGet("over", s) = [a |-> s.c.e, b |-> s.b, c |-> s.c]
       /\ (Done /\ call.op = "set" /\ call.st = "other")
            => \A k \in DOMAIN law.arg :
                 IF k \in DOMAIN law.root0.c
                 THEN k \in DOMAIN s.c /\ s.c[k] = law.arg[k]
                 ELSE /\ k = "a" => s.a = law.arg[k]
                      /\ k # "a" =>
                           /\ k \in DOMAIN s.c <=> k \in DOMAIN law.pre.c
                           /\ k \in DOMAIN s.c => s.c[k] = law.pre.c[k]

C20_Witness ==
  /\ law.phase = "fields"
  /\ Done /\ call.op = "set" /\ call.st = "other"
  /\ "d" \notin DOMAIN law.root0.c
  /\ "d" \in DOMAIN law.pre.c
  /\ "d" \in DOMAIN law.arg /\ law.arg.d = 1
  /\ s.c.d = 0
  /\ s.c.e = law.arg.e /\ s.a = law.arg.a

(***************************************************************************)
(* along, ondiff, each and arr.                                            *)
(***************************************************************************)
\* C21: for kag = store.along('k', store.at('k').at('a'), 'g'), kag.get() is
\* {k: sub.get(), g: store.at('g').get()}; kag.set(t) writes t.k through sub
\* and t.g to store.at('g') and leaves the rest of the root as it was; and
\* the three store laws hold - also for an along whose substore is an along.
C21_Along ==
  (law.phase = "on" /\ law.st \in AlongStores)
    => /\ law.threw = {}
       /\ StoreGet(law.st, s)
            = IF law.st = "kag" THEN [k |-> s.k.a, g |-> s.g]
              ELSE [k |-> [a |-> s.k.a.u, b |-> s.k.b], g |-> s.g]
       /\ (law.pc = "get_a" /\ stack = <<>>) =>
            IF law.st = "kag"
            THEN s = [k |-> [a |-> law.a.k, b |-> law.root0.k.b], g |-> law.a.g]
            ELSE s = [k |-> [a |-> [u |-> law.a.k.a, v |-> law.root0.k.a.v],
                             b |-> law.a.k.b],
                      g |-> law.a.g]
       /\ "get_a" \in law.got => law.get_a = law.a
       /\ "get_ab" \in law.got => law.get_ab = law.b
       /\ "get_00" \in law.got => law.get_00 = law.get_0
       /\ {"get_ab", "get_b"} \subseteq law.got => law.get_ab = law.get_b

C21_Witness ==
  /\ law.phase = "on" /\ law.st = "kag_along" /\ law.pc = "done"
  /\ law.got = {"get_a", "get_ab", "get_b", "get_0", "get_00"}
  /\ law.a # law.b
  /\ law.get_ab = law.b

\* the value the store ondiff was called on reads now: a reference or a number
Focus == HeapGet(law.ost, law.heap, law.root)

\* C22: in a notify pass the callback of ondiff is invoked if and only if the
\* value its store reads is not identical to the value last delivered to it
\* (at first the value at subscription); it is handed that value as
\* old_value, so that the two values it receives differ; and a call of set
\* that leaves the value identical does not invoke it.
C22_Ondiff ==
  law.phase = "diff"
    => /\ law.cmp.ran => (law.cmp.invoked <=> law.cmp.new # law.cmp.last)
       /\ law.cmp.invoked =>
            /\ law.k.new_value = law.cmp.new
            /\ law.k.old_value = law.cmp.last
            /\ law.k.new_value # law.k.old_value
       /\ Done => /\ calls[1] = 1
                   /\ law.diffs = law.diffs_pre + (IF Focus = law.focus_pre THEN 0 ELSE 1)

\* a write to the sibling field a made a new root object and a pass, and the
\* callback subscribed on store.at('c') was not invoked
C22_Witness ==
  /\ law.phase = "diff" /\ law.ost = "r_c"
  /\ Done /\ call.st = "r_a"
  /\ law.root # 1
  /\ law.cmp.ran /\ ~law.cmp.invoked
  /\ law.diffs = 0

\* C23: Store.each(store) returns as many stores as the array has elements
\* when it is called, and no more or fewer later; es[i].get() is the element
\* i of the array wherever the array has one, and es[i].set(x) replaces
\* element i and nothing else.
C23_Each ==
  (law.phase = "arr" /\ law.made)
    => /\ Len(law.each) = law.len0
       /\ \A i \in DOMAIN law.each :
            i <= Len(s) => /\ StoreGetOk(law.each[i], s)
                           /\ StoreGet(law.each[i], s) = s[i]
       /\ (Done /\ law.op = "each_set" /\ law.i <= Len(law.pre))
            => /\ ~call.thrown
               /\ s = [law.pre EXCEPT ![law.i] = law.x]

\* the list was taken over two elements, the array then shrank to one, and the
\* set through the first store of the list replaced that element
C23_Witness ==
  /\ law.phase = "arr" /\ law.made
  /\ Len(law.each) = 2 /\ Len(s) = 1
  /\ Done /\ law.op = "each_set" /\ law.i = 1
  /\ law.pre # s
  /\ s = <<law.x>>

\* C24: Store.arr(store, k)(args) runs the method on a copy of the array the
\* store holds, writes the copy back with one set - one notification - and
\* returns what the method returned; the array the store held before the call
\* is as it was.
C24_Arr ==
  law.phase = "arr"
    => /\ law.heap[law.pre_ref] = law.pre
       /\ law.heap[law.root] = s
       /\ (Done /\ law.op = "arr")
            => /\ s = Method(law.k, law.pre, law.args).xs
               /\ law.ret = Method(law.k, law.pre, law.args).ret
               /\ call.nsets = 1
               /\ calls[0] = 1
               /\ law.root # law.pre_ref
               /\ (law.k = "splice" /\ law.pre = <<1, 0>> /\ law.args = <<1, 1, 1>>)
                    => (law.ret = <<0>> /\ s = <<1, 1>>)

C24_Witness ==
  /\ law.phase = "arr"
  /\ Done /\ law.op = "arr" /\ law.k = "splice"
  /\ law.pre = <<1, 0>> /\ law.args = <<1, 1, 1>>
  /\ law.ret = <<0>> /\ s = <<1, 1>>
  /\ law.heap[law.pre_ref] = <<1, 0>>

(***************************************************************************)
(* The history zipper (SpecUndo).                                          *)
(***************************************************************************)
\* C25: advance pushes now onto prev, keeps now and empties next; undo moves
\* the top of prev into now and pushes the old now onto next, and returns
\* the history as it is when prev is empty; redo does the same from next to
\* prev; and redo(undo(h)) = h whenever prev is not empty.
C25_Zipper ==
  law.phase = "undo"
    => /\ law.op = "advance" =>
            /\ law.h.now = law.pre.now
            /\ law.h.prev = <<law.pre.now>> \o law.pre.prev
            /\ law.h.next = <<>>
       /\ law.op = "undo" =>
            IF Len(law.pre.prev) = 0 THEN law.h = law.pre
            ELSE /\ law.h.now = law.pre.prev[1]
                 /\ law.h.prev = SubSeq(law.pre.prev, 2, Len(law.pre.prev))
                 /\ law.h.next = <<law.pre.now>> \o law.pre.next
       /\ law.op = "redo" =>
            IF Len(law.pre.next) = 0 THEN law.h = law.pre
            ELSE /\ law.h.now = law.pre.next[1]
                 /\ law.h.next = SubSeq(law.pre.next, 2, Len(law.pre.next))
                 /\ law.h.prev = <<law.pre.now>> \o law.pre.prev
       /\ Len(law.h.prev) > 0 => redo(undo(law.h)) = law.h

\* an undo after which a redo is possible was followed by advance: the future
\* is gone
C25_Witness ==
  /\ law.phase = "undo" /\ law.op = "advance"
  /\ law.pre.next # <<>>
  /\ law.h.next = <<>>
  /\ Len(law.h.prev) = Len(law.pre.prev) + 1

(***************************************************************************)
(* The total index lens (SpecLens).                                        *)
(***************************************************************************)
NoTrailing(xs) == Len(xs) = 0 \/ xs[Len(xs)] # Undefined

\* C26: the array the setter of the total index lens returns does not end
\* with undefined, for every position, every value or undefined, and every
\* array that does not end with undefined itself.
C26_Trimmed ==
  (law.phase = "lens" /\ law.pc = "done" /\ law.lens \in TotalLenses)
    => /\ NoTrailing(law.s)
       /\ NoTrailing(law.set_b)
       /\ NoTrailing(law.set_set)
       /\ NoTrailing(law.set_get)

\* the last element was removed from an array with a hole before it: the hole
\* went with it
C26_Witness ==
  /\ law.phase = "lens" /\ law.pc = "done" /\ law.lens = "total_2"
  /\ law.s = <<0, Undefined, 1>>
  /\ law.b = Undefined
  /\ law.set_b = <<0>>

Passes == {i \in DOMAIN stack : stack[i].kind = "iter"}

\* C28: a set or a transaction made by a listener during a notify pass starts
\* no pass inside the running one - at most one pass is in progress at any
\* moment; the running pass goes through the rest of its listeners, and a
\* further pass then invokes every listener again, the writer included: when
\* the call is over nothing is pending, every listener was invoked at least
\* twice and at most once more than calls were made inside the call, and each
\* has received the value the store now holds.
C28_OnePassAtATime ==
  /\ Cardinality(Passes) <= 1
  /\ (Done /\ call.op = "set" /\ call.d0 = 0 /\ call.lw /\ ~call.thrown)
       => /\ ~pending
          /\ depth = 0
          /\ \A id \in Kept :
               /\ calls[id] >= 2
               /\ calls[id] <= 1 + call.ops
               /\ seen[id] = Delivered(dict[id])

\* one set at top level, one set by a listener during the pass: two passes,
\* each through both listeners
C28_Witness ==
  /\ Done /\ call.op = "set" /\ call.d0 = 0 /\ call.lw /\ ~call.thrown
  /\ call.ops = 1
  /\ Cardinality(Kept) = 2
  /\ \A id \in Kept : calls[id] = 2 /\ seen[id] = Delivered(dict[id])

\* the listener id is entered by this step
Invoked(id) ==
  /\ Len(stack') > Len(stack)
  /\ stack'[Len(stack')].kind = "cb"
  /\ stack'[Len(stack')].id = id

\* C29: a callback that was unsubscribed - during a notify pass that has not
\* reached it yet, by another listener or by code it calls, or at any other
\* time - is not invoked in the rest of that pass nor in any later pass.
C29_RemovedNotReached == [][\A id \in offed : ~Invoked(id)]_vars

\* a pass has gone beyond the position of a callback that was subscribed when
\* the call started and unsubscribed after the pass had captured the order: it
\* was not invoked
C29_Witness ==
  \E i \in Passes : \E j \in DOMAIN stack[i].order :
    /\ j < stack[i].pos
    /\ stack[i].order[j] \in offed
    /\ stack[i].order[j] \in call.live
    /\ calls[stack[i].order[j]] = 0

\* C30: a callback subscribed while a pass was running is invoked in every
\* later pass for as long as it is subscribed - in both revisions of the
\* registry, and also when a callback had been unsubscribed earlier in the
\* pass during which it was added.
C30_AddedDuringPass ==
  (law.phase = "list" /\ ~law.iter /\ law.passes > 0)
    => \A id \in law.prior \cap law.dict : id \in law.invoked

\* in the revision that sets order to null: a pass has invoked a callback that
\* was added during an earlier pass, after a removal in that pass
C30_Witness ==
  /\ law.phase = "list" /\ law.variant = "null"
  /\ ~law.iter /\ law.passes > 1
  /\ \E id \in law.late \cap law.prior : id \in law.dict /\ id \in law.invoked

(***************************************************************************)
(* The order of the invocations of a pass (SpecList).  The id of a callback *)
(* is the value next_unique had when it was pushed, so that a callback      *)
(* pushed earlier has the smaller id, and the id is never changed.          *)
(***************************************************************************)
\* C31: in every pass the callbacks are invoked in the order in which they
\* were pushed, whatever pushes and removals came before and during the
\* pass, in both revisions of the registry; a removal takes the removed
\* callback out and leaves the others their places: a pass that has ended has
\* invoked every callback that was subscribed when it began and still is,
\* and none that was not subscribed when it began.
C31_SubscriptionOrder ==
  law.phase = "list"
    => /\ \A i, j \in DOMAIN law.trace : i < j => law.trace[i] < law.trace[j]
       /\ Range(law.trace) \subseteq law.start
       /\ (~law.iter /\ law.passes > 0)
            => (law.start \cap law.dict) \subseteq Range(law.trace)

\* a pass has invoked the first and the third callback in this order, after
\* the second one was removed and a pass before it was made
C31_Witness ==
  /\ law.phase = "list" /\ ~law.iter /\ law.passes > 1
  /\ law.trace = <<0, 2>>
  /\ law.start = {0, 2}
  /\ law.dict = {0, 2}

(***************************************************************************)
(* The two revisions of the registry against each other (SpecPair).         *)
(***************************************************************************)
\* C32: the revision of ListWithRemove that filters a dirty order and the
\* one that sets order to null and rebuilds it from the ids left, sorted as
\* numbers, given the same pushes, removals and iterations - those made by
\* the callbacks of a running iteration included - call the same callbacks
\* in the same order in every pass, and hold the same callbacks.
C32_SameInvocations ==
  law.phase = "pair"
    => /\ law.trace["dirty"] = law.trace["null"]
       /\ law.reg["dirty"].dict = law.reg["null"].dict

\* a pass that began with order = null in the one revision has called two
\* callbacks, after a pass whose callbacks pushed and removed
C32_Witness ==
  /\ law.phase = "pair" /\ ~law.iter /\ law.passes > 1
  /\ law.rebuilt
  /\ law.inner = {"push", "remove"}
  /\ Len(law.trace["null"]) >= 2
  /\ law.trace["dirty"] = law.trace["null"]

(***************************************************************************)
(* What a listener finds when it is invoked (Spec).                         *)
(***************************************************************************)
\* C33: a listener runs with depth equal to 1, the one depth++ of the
\* transact notify wraps the pass in: whenever a listener is running, no
\* transaction body and no forEach of a relabel set, a merge set or an update
\* is in progress below it, so that no listener is handed a value from
\* between two writes of one batch.
C33_StableAtInvocation ==
  \A i \in DOMAIN stack :
    stack[i].kind = "cb"
      => /\ \A j \in 1 .. (i - 1) : stack[j].kind \notin {"body", "multi"}
         /\ (i = Len(stack) => depth = 1)

\* a listener is running after a transaction that made two sets has left
\* its body
C33_Witness ==
  /\ stack # <<>> /\ Top.kind = "cb"
  /\ call.op = "transaction" /\ call.nsets = 2
  /\ depth = 1
  /\ \E j \in DOMAIN stack : stack[j].kind = "ret"

(***************************************************************************)
(* Writes and their notification at the return of a top-level call (Spec).  *)
(***************************************************************************)
\* C34 as stated: whenever a top-level call has returned normally, depth is 0
\* and pending is false, and every listener subscribed before the call and
\* still subscribed has been invoked since the last write of the call and
\* has received the value its store now holds.
C34_NoWriteUnnotified ==
  (Done /\ ~call.thrown)
    => /\ depth = 0
       /\ ~pending
       /\ call.wrote
            => \A id \in Kept : calls[id] >= 1 /\ seen[id] = Delivered(dict[id])

(***************************************************************************)
(* The number of passes a top-level call makes (SpecCascade).               *)
(***************************************************************************)
\* C35 as stated: a top-level set or transaction, when its listeners write
\* finitely often, has made exactly one pass plus one for each pass in which
\* a listener wrote when it returns.
C35_AsStated ==
  (stack = <<>> /\ law.op # "none" /\ law.always = {})
    => law.passes = 1 + law.wp

\* C35: when the listeners write finitely often, a top-level set, or a
\* top-level transaction whose body set, comes to its end, and has then
\* made exactly one pass plus one for each pass in which a listener wrote
\* (a transaction whose body did not set makes no pass); with a listener that
\* writes every time it is invoked, a call that has started a pass never
\* returns.
C35_Cascade ==
  /\ []((stack = <<>> /\ law.op # "none" /\ law.always = {})
          => law.passes = IF law.nsets > 0 THEN 1 + law.wp ELSE 0)
  /\ []((law.always # {} /\ law.passes > 0) => stack # <<>>)
  /\ ((stack # <<>> /\ law.always = {}) ~> (stack = <<>>))

\* a set has returned after three passes, a listener having written in two
C35_Witness ==
  /\ stack = <<>> /\ law.op = "set" /\ law.always = {}
  /\ law.passes = 3 /\ law.wp = 2

(***************************************************************************)
(* A transaction body that raises (Spec).                                   *)
(***************************************************************************)
\* C36: a transaction does not roll back.  When the body of a transaction
\* made by the program raises - by a throw of its own or by a set that
\* raises - the root keeps the value the sets before it gave it, the store
\* last set still reads the value it was set to, and no listener has been
\* invoked when the exception reaches the program: the sets are not
\* notified.
C36_NoRollback ==
  [][(stack # <<>> /\ Top.kind = "body" /\ ~InListener /\ stack' = <<>>)
       => /\ call'.thrown
          /\ s' = s
          /\ pending' = pending
          /\ (Top.st # "none" /\ StoreGetOk(Top.st, s'))
               => StoreGet(Top.st, s') = Top.v
          /\ \A id \in Ids : calls'[id] = 0]_vars

\* a transaction whose body changed the root and then raised has reached
\* the program: the root holds the new value, pending is set and no
\* subscribed listener was invoked
C36_Witness ==
  /\ Done /\ call.op = "transaction" /\ call.thrown
  /\ call.d0 = 0 /\ call.wrote /\ call.changed
  /\ s # s0 /\ pending
  /\ call.live # {}
  /\ \A id \in Ids : calls[id] = 0

(***************************************************************************)
(* The queue of requests (SpecReq).                                         *)
(***************************************************************************)
\* C37: with process_requests subscribed on the queue, the requests are
\* handed to process once each and in the order in which they were made (the
\* log is 0, 1, 2, ... at every moment); while a batch is being processed
\* the queue holds none of its requests, and the queue never holds a request
\* that was handed to process; a request made by process is handed to
\* process in a later pass than the one it was made in; and when the
\* top-level call has returned every request made was handed to process and
\* the queue is empty.
C37_Requests ==
  law.phase = "req"
    => /\ \A i \in DOMAIN law.log : law.log[i] = i - 1
       /\ Range(law.heap[s]) \cap Range(law.log) = {}
       /\ \A j \in DOMAIN stack :
            stack[j].kind = "batch"
              => Range(law.heap[stack[j].requests]) \cap Range(law.heap[s]) = {}
       /\ \A i \in DOMAIN law.at : law.by[i] > 0 => law.at[i] > law.by[i]
       /\ stack = <<>>
            => /\ Len(law.log) = law.n
               /\ law.heap[s] = <<>>
               /\ depth = 0 /\ ~pending

\* three requests were handed to process, the last of them made by process
\* while it handled a batch of two; the call has returned
C37_Witness ==
  /\ law.phase = "req" /\ stack = <<>> /\ law.op # "none"
  /\ law.log = <<0, 1, 2>>
  /\ law.at[1] = law.at[2]
  /\ law.by[3] = law.at[1]
  /\ law.at[3] > law.by[3]

(***************************************************************************)
(* Zooming twice and zooming through Lens.seq (SpecZoom).                   *)
(***************************************************************************)
\* C38: the store zoomed through lens1 and then lens2 and the store zoomed
\* through Lens.seq(lens1, lens2) read the same in every state - both get
\* the same value or both raise - and set(u) through either, from the same
\* root, leaves the root with the same value, invokes the listener the same
\* number of times, and raises for the one when it does for the other.
C38_ZoomSeq ==
  law.phase = "zoom"
    => /\ StoreGetOk(law.two, s) = StoreGetOk(law.one, s)
       /\ StoreGetOk(law.two, s) => StoreGet(law.two, s) = StoreGet(law.one, s)
       /\ law.pc = "done"
            => /\ law.root_two = law.root_one
               /\ law.n_two = law.n_one
               /\ law.threw_two = law.threw_one

\* both sets of the pair of the test 'seq' were made and changed the root,
\* and each invoked the listener once
C38_Witness ==
  /\ law.phase = "zoom" /\ law.pc = "done"
  /\ law.one = "db"
  /\ law.root_one # law.root0
  /\ law.root_two = law.root_one
  /\ law.n_two = 1 /\ law.n_one = 1

(***************************************************************************)
(* Lens.along (SpecLens): the lens along the field c through at('e'),       *)
(* keeping a, on structs {a, c: {d, e}} and {a, b, c: {d, e}}.              *)
(***************************************************************************)
\* C39 as stated: set(s, t) of Lens.along(k, i, ...keep) has every field of
\* s; its field k is i.set(s[k], t[k]), its kept fields are those of t, and
\* the fields of s that are neither k nor kept are those of s.
C39_RestIntact ==
  (law.phase = "lens" /\ law.pc = "done" /\ law.lens \in AlongLenses)
    => LET lens == LensOf(law.lens)
           rest == (DOMAIN law.s) \ ({lens.k} \cup Range(lens.keep))
       IN /\ DOMAIN law.s \subseteq DOMAIN law.set_b
          /\ law.set_b[lens.k] = LensSet(lens.i, law.s[lens.k], law.b[lens.k])
          /\ \A j \in Range(lens.keep) : law.set_b[j] = law.b[j]
          /\ \A j \in rest : law.set_b[j] = law.s[j]

====
